---- MODULE Spec2Model ----
(***************************************************************************)
(* git-syncer: the per-job pipeline (initRepo, syncFiles, commitChanges,   *)
(* deferred webhook dispatch) and the pattern matcher shouldSync.          *)
(*                                                                         *)
(* Paths and glob patterns are sequences of one-character strings, so that *)
(* matching works on characters as doublestar.Match does.                  *)
(***************************************************************************)
EXTENDS Integers, Sequences, FiniteSets, TLC

VARIABLES
    \* ---- pattern matcher (shouldSync) ----
    mPath,        \* the relative path handed to shouldSync
    mIncludes,    \* the include list
    mExcludes,    \* the exclude list
    mCalled,      \* whether shouldSync has been called
    mResult,      \* what shouldSync returned (FALSE before the call)
    \* ---- configuration (parsed once) ----
    user,         \* the User that owns the job
    job,          \* the Job; initRepo defaults job.Branch
    registry,     \* WebhookManager.webhooks: name -> WebhookConfig
    \* ---- environment ----
    defaultBranch,\* the branch "git init" starts on (init.defaultBranch)
    srcFiles,     \* files of the source tree, relative to the working directory
    dirs,         \* the directories under .git-syncer, by name
    remote,       \* the remote repository: branch -> tree of its tip
    \* ---- one job run (syncJob) ----
    pc,           \* "boot", "idle", "init", "sync", "commit", "defer"
    syncErr,      \* syncJob's syncErr ("" is nil)
    calls,        \* the steps invoked so far in this run, in order
    cmds,         \* the git commands issued so far in this run: <<step, command>>
    fsWrites,     \* what syncFiles created or wrote in this run
    rets,         \* rets[i] is the error calls[i] returned ("" is nil)
    whCtx,        \* the WebhookContext handed to ExecuteWebhooks in this run
    whCalls,      \* how often ExecuteWebhooks was invoked in this run
    sent,         \* the webhook requests sent in this run, in order
    statusOut,    \* what "git status" told commitChanges in this run
    runs,         \* completed job runs
    initHist,     \* results of the initRepo calls made in succession
    rebaseOut,    \* how "git rebase" ended in this run: "-", "ok" or "failed"
    copyFails,    \* the matched files whose copy failed in this run: <<file, how>>
    fetchOut,     \* how "git fetch" ended in this run: "-", "ok" or "failed"
    \* ---- one call of ExecuteWebhooks ----
    hNames,       \* the webhook names handed to GetWebhooksByNames
    hConfigs,     \* the configs handed to ExecuteWebhooks
    hStatus,      \* ctx.Status
    hpc,          \* where the call is: "off", "resolve", "loop", "enter", "refs",
                  \* "gate", "send", "return", "done"
    hTop,         \* index of the top-level webhook the loop is at
    hStack,       \* the calls of executeWebhookWithReferences under way
    hExecuted,    \* the executed map of the current top-level webhook
    hAttempt,     \* the loop counter i of executeWebhook
    hErr,         \* the error the call that just returned gave ("" is nil)
    hTrace,       \* what the call did so far, in order
    hRet,         \* what ExecuteWebhooks returned ("-" before it returns)
    hSleeps,      \* how often the executeWebhook under way has slept
    \* ---- two jobs of different users, run concurrently ----
    cJobs,        \* the two jobs: <<[User, Name], [User, Name]>>
    cPc,          \* where each job's run is: "init", "stage", "name", "email",
                  \* "commit", "done"
    cInitDir,     \* the directory initRepo used for each job (<<>> before it ran)
    cRepos,       \* the directories under .git-syncer, by name: whether each
                  \* holds a repository, and its repository-local identity
    cLog,         \* the commits made, in order: job, directory, author
    \* ---- calls of RegisterWebhook ----
    rIn,          \* the config handed to the last call (<<>> before any call)
    rErr          \* the error the last call returned ("" is nil, "-" before any call)

matchVars == <<mPath, mIncludes, mExcludes, mCalled, mResult>>

configVars == <<user, job, registry>>

envVars == <<defaultBranch, srcFiles, dirs, remote>>

runVars == <<pc, syncErr, calls, cmds, fsWrites, rets, whCtx, whCalls, sent, statusOut, runs,
             initHist, rebaseOut, copyFails, fetchOut>>

hookVars == <<hNames, hConfigs, hStatus, hpc, hTop, hStack, hExecuted, hAttempt, hErr,
              hTrace, hRet, hSleeps>>

pairVars == <<cJobs, cPc, cInitDir, cRepos, cLog>>

regVars == <<rIn, rErr>>

vars == <<matchVars, configVars, envVars, runVars, hookVars, pairVars, regVars>>

(***************************************************************************)
(* Bounds                                                                  *)
(***************************************************************************)
MaxPatterns == 2      \* longest include / exclude list

MaxRuns == 2          \* job runs the scheduler fires

(***************************************************************************)
(* Sequences helpers                                                       *)
(***************************************************************************)
SeqsUpTo(S, n) == UNION {[1..k -> S] : k \in 0..n}

Drop(s, k) == SubSeq(s, k + 1, Len(s))

Take(s, k) == SubSeq(s, 1, k)

HasChar(s, c) == \E i \in 1..Len(s) : s[i] = c

(***************************************************************************)
(* doublestar.Match(pattern, name) with separator "/"                      *)
(***************************************************************************)
Sep == "/"

\* A pattern is malformed when a character class is opened and never closed.
\* The alphabet of the model holds no "]", so every "[" is unclosed.
Malformed(p) == HasChar(p, "[")

\* The patterns that match the empty rest of a name.
isZeroLengthPattern(p) ==
    p \in { <<>>, <<"*">>, <<"*", "*">>, <<Sep, "*", "*">>,
            <<"*", "*", Sep>>, <<Sep, "*", "*", Sep>> }

\* The suffixes of n that start right after one of its separators.
AfterSeparators(n) == { Drop(n, i) : i \in { j \in 1..Len(n) : n[j] = Sep } }

\* The suffixes of n reached by skipping a run of non-separator characters.
AfterStar(n) ==
    { Drop(n, k) : k \in { j \in 0..Len(n) : ~HasChar(Take(n, j), Sep) } }

RECURSIVE globMatch(_, _, _)
globMatch(p, n, startOfSegment) ==
    IF n = <<>> THEN isZeroLengthPattern(p)
    ELSE IF p = <<>> THEN FALSE
    ELSE IF p[1] = "*" THEN
        IF Len(p) >= 2 /\ p[2] = "*" THEN
            IF startOfSegment /\ Len(p) = 2 THEN TRUE
            ELSE IF startOfSegment /\ p[3] = Sep THEN
                \E m \in {n} \cup AfterSeparators(n) : globMatch(Drop(p, 3), m, TRUE)
            ELSE \E m \in AfterStar(n) : globMatch(Drop(p, 2), m, FALSE)
        ELSE \E m \in AfterStar(n) : globMatch(Drop(p, 1), m, FALSE)
    ELSE IF p[1] = "?" THEN
        n[1] # Sep /\ globMatch(Drop(p, 1), Drop(n, 1), FALSE)
    ELSE
        p[1] = n[1] /\ globMatch(Drop(p, 1), Drop(n, 1), p[1] = Sep)

\* (matched, err): a malformed pattern yields ErrBadPattern and no match.
Match(pattern, name) ==
    [ matched |-> ~Malformed(pattern) /\ globMatch(pattern, name, TRUE),
      err     |-> Malformed(pattern) ]

(***************************************************************************)
(* shouldSync                                                              *)
(***************************************************************************)
\* Mutant: the include rules are consulted before the exclude rules.
shouldSync_includeFirst(path, includes, excludes) ==
    IF \E i \in 1..Len(includes) :
           ~Match(includes[i], path).err /\ Match(includes[i], path).matched
    THEN TRUE
    ELSE IF \E i \in 1..Len(excludes) :
           ~Match(excludes[i], path).err /\ Match(excludes[i], path).matched
    THEN FALSE
    ELSE Len(includes) = 0

\* Mutant: an empty include list accepts nothing.
shouldSync_emptyRejects(path, includes, excludes) ==
    IF \E i \in 1..Len(excludes) :
           ~Match(excludes[i], path).err /\ Match(excludes[i], path).matched
    THEN FALSE
    ELSE \E i \in 1..Len(includes) :
           ~Match(includes[i], path).err /\ Match(includes[i], path).matched

\* Mutant: a pattern error aborts the decision with a rejection.
shouldSync_errorRejects(path, includes, excludes) ==
    IF \E i \in 1..Len(excludes) : Match(excludes[i], path).err
    THEN FALSE
    ELSE IF \E i \in 1..Len(excludes) : Match(excludes[i], path).matched
    THEN FALSE
    ELSE IF Len(includes) = 0 THEN TRUE
    ELSE \E i \in 1..Len(includes) :
           ~Match(includes[i], path).err /\ Match(includes[i], path).matched

shouldSync(path, includes, excludes) ==
    IF \E i \in 1..Len(excludes) :
           ~Match(excludes[i], path).err /\ Match(excludes[i], path).matched
    THEN FALSE
    ELSE IF Len(includes) = 0 THEN TRUE
    ELSE \E i \in 1..Len(includes) :
           ~Match(includes[i], path).err /\ Match(includes[i], path).matched

(***************************************************************************)
(* The inputs of the matcher                                               *)
(***************************************************************************)
MatchPaths ==
    { <<"a", ".", "t">>,                 \* a.t
      <<"b", ".", "m">>,                 \* b.m
      <<"d", Sep, "a", ".", "t">>,       \* d/a.t
      <<"d", Sep, "b", ".", "m">>,       \* d/b.m
      <<"d">> }

MatchPatterns ==
    { <<"*", ".", "t">>,                 \* *.t
      <<"*", "*", Sep, "*", ".", "m">>,  \* **/*.m
      <<"d", Sep, "*", "*">>,            \* d/**
      <<"?", ".", "?">>,                 \* ?.?
      <<"*", ".", "t", "[">> }           \* *.t[   (malformed)

PatternLists == SeqsUpTo(MatchPatterns, MaxPatterns)

(***************************************************************************)
(* Configuration values                                                    *)
(***************************************************************************)
URL(scheme, cred, rest) == [scheme |-> scheme, cred |-> cred, rest |-> rest]

\* An empty URL string.
NoURL == URL("", <<>>, "")

\* Job.Name values: a path-safe name and one with a space in it.
JobNames == { <<"j">>, <<"a", " ", "b">> }

RemoteURLs == { NoURL, URL("https://", <<>>, "h/r") }

BranchNames == { "", "dev" }

MergeStrategies == { "", "rebase", "force" }

RemotePaths == { <<>>, <<"r">> }

\* The registered webhooks (Config.Webhooks after RegisterWebhook).
WebhookNames == { "A", "B" }

\* Job.Webhooks values.
JobWebhookLists == { <<>>, <<"A">> }

Users == { [Username |-> "u1", Email |-> "u1@x", GitUsername |-> "", GitPassword |-> ""] }

\* The source tree: files relative to the process working directory.
AllSourceFiles ==
    { <<"s", Sep, "a", ".", "t">>,             \* s/a.t
      <<"s", Sep, "b", ".", "m">>,             \* s/b.m
      <<"s", Sep, "d", Sep, "a", ".", "t">> }  \* s/d/a.t

SourceTrees == { AllSourceFiles, {} }

JobRecord(n, url, wh, br, ms, rp, ks) ==
    [ Name |-> n, SourcePath |-> <<"s">>, RemoteURL |-> url,
      Includes |-> << <<"*", ".", "t">> >>, Excludes |-> << <<"*", ".", "m">> >>,
      Webhooks |-> wh, Branch |-> br, MergeStrategy |-> ms,
      RemotePath |-> rp, KeepStructure |-> ks ]

\* The jobs of the pipeline runs: name, remote, webhooks and merge strategy vary.
Jobs ==
    { JobRecord(n, url, wh, "", ms, <<>>, FALSE) :
        n \in JobNames, url \in RemoteURLs, wh \in JobWebhookLists,
        ms \in MergeStrategies }

\* The jobs of the sync runs: name and destination layout vary.
LayoutJobs ==
    { JobRecord(n, NoURL, <<>>, "", "", rp, ks) :
        n \in JobNames, rp \in RemotePaths, ks \in BOOLEAN }

\* The jobs of the initialization runs: name, remote and branch vary.
BranchJobs ==
    { JobRecord(n, url, <<>>, br, "", <<>>, FALSE) :
        n \in JobNames, url \in RemoteURLs, br \in BranchNames }

\* Job.SourcePath values: a directory, a pattern whose wildcard is in the
\* last element, a pattern with a wildcard directory, a nested directory.
SourcePaths ==
    { <<"s">>,
      <<"s", Sep, "*", ".", "t">>,
      <<"s", Sep, "*", "*", Sep, "*", ".", "t">>,
      <<"s", Sep, "d">> }

\* The jobs of the walk runs: source path and keep_structure vary.
WalkJobs ==
    { [JobRecord(<<"j">>, NoURL, <<>>, "", "", <<>>, ks) EXCEPT !.SourcePath = sp] :
        sp \in SourcePaths, ks \in BOOLEAN }

(***************************************************************************)
(* Paths (path/filepath)                                                   *)
(***************************************************************************)
WorkDir == <<Sep, "w">>

\* filepath.Join of two clean paths: empty elements and "." are dropped.
Join(a, b) ==
    IF a = <<>> \/ a = <<".">> THEN b
    ELSE IF b = <<>> \/ b = <<".">> THEN a
    ELSE a \o <<Sep>> \o b

\* What filepath.Clean does to a path whose only defect is trailing separators.
RECURSIVE Clean(_)
Clean(p) ==
    IF Len(p) > 1 /\ p[Len(p)] = Sep THEN Clean(Take(p, Len(p) - 1)) ELSE p

HasPrefix(s, pre) == Len(s) >= Len(pre) /\ Take(s, Len(pre)) = pre

\* filepath.Rel(base, p) for a path p at or below base.
Rel(base, p) == IF p = base THEN <<".">> ELSE Drop(p, Len(base) + 1)

LastSep(p) ==
    IF HasChar(p, Sep)
    THEN CHOOSE i \in 1..Len(p) : p[i] = Sep /\ \A j \in (i + 1)..Len(p) : p[j] # Sep
    ELSE 0

\* filepath.Base and filepath.Dir of a clean, non-empty path.
Base(p) == Drop(p, LastSep(p))

Dir(p) ==
    IF LastSep(p) = 0 THEN <<".">>
    ELSE IF LastSep(p) = 1 THEN <<Sep>>
    ELSE Take(p, LastSep(p) - 1)

(***************************************************************************)
(* The directories under .git-syncer                                       *)
(***************************************************************************)
UnsafeChars == { "/", "\\", ":", "*", "?", "\"", "<", ">", "|", " " }

sanitizePath(name) ==
    [i \in 1..Len(name) |-> IF name[i] \in UnsafeChars THEN "-" ELSE name[i]]

\* The base directory of the managed repositories, as one path element.
GitSyncerDir == <<".git-syncer">>

\* Job.GetRepoPath: the directory syncFiles and commitChanges use, relative to
\* the working directory.
\* filepath.Join cleans its result; the job name is its one element that need
\* not be clean.
GetRepoPath(j) == Clean(Join(GitSyncerDir, j.Name))

\* repoDir of initRepo: the directory initRepo uses.
InitRepoDir(j) == Join(Join(WorkDir, GitSyncerDir), sanitizePath(j.Name))

\* The name under .git-syncer of a repository directory, given relative to the
\* working directory or absolute.
DirKey(path) ==
    IF HasPrefix(path, WorkDir) THEN Rel(Join(WorkDir, GitSyncerDir), path)
    ELSE Rel(GitSyncerDir, path)

DirKeys == { n : n \in JobNames } \cup { sanitizePath(n) : n \in JobNames }

\* A directory that does not exist.
NoDir ==
    [ present    |-> FALSE,   \* the directory exists
      git        |-> FALSE,   \* it holds repository metadata (.git)
      head       |-> "",      \* the branch HEAD names
      trees      |-> <<>>,    \* branch -> tree of its tip (the branches that exist)
      origin     |-> NoURL,   \* URL of the remote "origin"
      remoteRefs |-> {},      \* branches b with a ref origin/b
      identity   |-> "",      \* repository-local user.name
      wt         |-> <<>> ]   \* working tree: path -> content

EmptyMap == <<>>

Put(f, k, v) == [x \in (DOMAIN f) \cup {k} |-> IF x = k THEN v ELSE f[x]]

\* The tree of the commit HEAD names (empty on an unborn branch).
HeadTree(d) == IF d.head \in DOMAIN d.trees THEN d.trees[d.head] ELSE EmptyMap

\* A step's outcome: the directory after it, the error returned, the git
\* commands issued.
Outcome(d, err, issued) == [d |-> d, err |-> err, cmds |-> issued]

\* Continue with F unless the outcome so far carries an error.
Bind(o, F(_)) == IF o.err # "" THEN o ELSE F(o)

(***************************************************************************)
(* initRepo                                                                *)
(***************************************************************************)
addCredentialsToURL(url, username, password) ==
    IF url.scheme = "https://"
    THEN URL("https://", <<username, password>>, url.rest)
    ELSE url

\* The commands of initRepo that the environment may fail.
InitFaultKinds ==
    { "mkdir", "init", "remote get-url", "remote add", "branch -M",
      "rev-parse", "checkout -b", "checkout" }

InitFaults == { {} } \cup { {f} : f \in InitFaultKinds }

\* Mutant: an existing repository is switched with a plain checkout, without
\* first verifying that the branch exists.
setBranchExisting_noVerify(o, branch, faults) ==
    IF "checkout" \in faults \/ branch \notin DOMAIN o.d.trees
    THEN Outcome(o.d, "failed to checkout branch", o.cmds \o <<"checkout">>)
    ELSE Outcome([o.d EXCEPT !.head = branch], "", o.cmds \o <<"checkout">>)

\* The branch selection of initRepo on a repository that is not new:
\* rev-parse --verify, then checkout -b or checkout.
setBranchExisting(o, branch, faults) ==
    IF branch \notin DOMAIN o.d.trees \/ "rev-parse" \in faults
    THEN \* the branch does not exist: create it
         IF "checkout -b" \in faults \/ branch \in DOMAIN o.d.trees
         THEN Outcome(o.d, "failed to create branch",
                      o.cmds \o <<"rev-parse", "checkout -b">>)
         ELSE Outcome([o.d EXCEPT
                          !.head = branch,
                          !.trees = IF o.d.head \in DOMAIN o.d.trees
                                    THEN Put(o.d.trees, branch, o.d.trees[o.d.head])
                                    ELSE o.d.trees],
                      "", o.cmds \o <<"rev-parse", "checkout -b">>)
    ELSE \* the branch exists: switch to it
         IF "checkout" \in faults
         THEN Outcome(o.d, "failed to checkout branch",
                      o.cmds \o <<"rev-parse", "checkout">>)
         ELSE Outcome([o.d EXCEPT
                          !.head = branch,
                          !.wt = IF o.d.head # branch /\ o.d.wt = HeadTree(o.d)
                                 THEN o.d.trees[branch] ELSE o.d.wt],
                      "", o.cmds \o <<"rev-parse", "checkout">>)

\* The URL initRepo registers: the job's URL, with the user's HTTPS
\* credentials embedded when both are set.
remoteURL(u, j) ==
    IF u.GitUsername # "" /\ u.GitPassword # ""
    THEN addCredentialsToURL(j.RemoteURL, u.GitUsername, u.GitPassword)
    ELSE j.RemoteURL

\* Mutant: the remote is set to the job's URL whether or not origin exists.
addRemote_upsert(o, u, j, faults) ==
    IF "remote add" \in faults
    THEN Outcome(o.d, "failed to add remote", o.cmds \o <<"remote add">>)
    ELSE Outcome([o.d EXCEPT !.origin = remoteURL(u, j)], "",
                 o.cmds \o <<"remote add">>)

\* The remote handling of initRepo: "remote get-url origin", and
\* "remote add origin <url>" when that fails.
addRemote(o, u, j, faults) ==
    IF o.d.origin # NoURL /\ "remote get-url" \notin faults
    THEN Outcome(o.d, "", o.cmds \o <<"remote get-url">>)
    ELSE IF "remote add" \in faults \/ o.d.origin # NoURL
    THEN Outcome(o.d, "failed to add remote",
                 o.cmds \o <<"remote get-url", "remote add">>)
    ELSE Outcome([o.d EXCEPT !.origin = remoteURL(u, j)], "",
                 o.cmds \o <<"remote get-url", "remote add">>)

\* Mutant: a new repository gets a placeholder commit before the rename.
setBranchNew_seedsCommit(o, branch, faults) ==
    IF "branch -M" \in faults
    THEN Outcome(o.d, "failed to set branch", o.cmds \o <<"commit", "branch -M">>)
    ELSE Outcome([o.d EXCEPT !.head = branch,
                             !.trees = Put(@, branch, Put(EmptyMap, <<"R">>, <<"R">>)),
                             !.wt = Put(EmptyMap, <<"R">>, <<"R">>)],
                 "", o.cmds \o <<"commit", "branch -M">>)

\* The branch selection of initRepo on a new repository: "branch -M <branch>"
\* renames the unborn branch git init left HEAD on.
setBranchNew(o, branch, faults) ==
    IF "branch -M" \in faults
    THEN Outcome(o.d, "failed to set branch", o.cmds \o <<"branch -M">>)
    ELSE Outcome([o.d EXCEPT !.head = branch], "", o.cmds \o <<"branch -M">>)

\* The branch initRepo works with: job.Branch, "main" when unspecified.
BranchOrMain(j) == IF j.Branch = "" THEN "main" ELSE j.Branch

\* initRepo(user, job) on directory d0; gitDefault is the branch a fresh
\* "git init" starts on; faults are the commands the environment fails.
initRepo(d0, u, j, gitDefault, faults) ==
    LET branch == BranchOrMain(j)
        isNew  == ~d0.git
        create ==
            IF ~isNew THEN Outcome(d0, "", <<>>)
            ELSE IF "mkdir" \in faults
            THEN Outcome(d0, "failed to create directory", <<>>)
            ELSE IF "init" \in faults
            THEN Outcome([d0 EXCEPT !.present = TRUE], "git init failed", <<"init">>)
            ELSE Outcome([d0 EXCEPT !.present = TRUE, !.git = TRUE,
                                    !.head = gitDefault], "", <<"init">>)
        AddRemote(o) == addRemote(o, u, j, faults)
        SetBranch(o) ==
            IF isNew THEN setBranchNew(o, branch, faults)
            ELSE setBranchExisting(o, branch, faults)
    IN  IF j.RemoteURL = NoURL THEN create
        ELSE Bind(Bind(create, AddRemote), SetBranch)

\* A fault set is worth choosing only if it changes what the step does.
Effective(faults, withFaults, without) == faults = {} \/ withFaults # without

(***************************************************************************)
(* Webhook dispatch                                                        *)
(***************************************************************************)
WebhookConfig(name, trigger, retryCount, refs) ==
    [ Name |-> name, URL |-> <<"http://hook/", name>>, Method |-> "POST",
      Body |-> "{{.Status}}", Trigger |-> trigger, RetryCount |-> retryCount,
      RetryDelay |-> 5, References |-> refs ]

\* Registries as RegisterWebhook leaves them: A and B refer to each other, and
\* B also names a webhook that is not registered.
Registries ==
    { [n \in WebhookNames |->
          IF n = "A" THEN WebhookConfig("A", "always", 2, <<"B">>)
                     ELSE WebhookConfig("B", "success", 2, <<"A", "X">>)] }

\* How many attempts of a webhook's request fail before one succeeds.
MaxFails == 2

HttpOracles == [WebhookNames -> 0..MaxFails]

\* Mutant: the loop ends at the first name that is not registered.
GetWebhooksByNames_stopsAtUnknown(reg, names) ==
    LET unknown == { i \in 1..Len(names) : names[i] \notin DOMAIN reg }
        upTo    == IF unknown = {} THEN Len(names)
                   ELSE (CHOOSE i \in unknown : \A k \in unknown : i <= k) - 1
    IN  [i \in 1..upTo |-> reg[names[i]]]

\* Mutant: the trigger is not compared with the status.
shouldExecute_ignoresStatus(w, status) == w.Trigger \in {"always", "success", "failure"}

GetWebhooksByNames(reg, names) ==
    LET found == SelectSeq(names, LAMBDA n : n \in DOMAIN reg)
    IN  [i \in 1..Len(found) |-> reg[found[i]]]

\* The progress of one dispatch: the names marked executed, the requests sent
\* (by webhook name, in order), and the error of the last call.
DispatchState(executed, requests, err) ==
    [executed |-> executed, sent |-> requests, err |-> err]

\* text/template: a body with an unclosed action does not parse.
TemplateParses(body) == body # "{{"

\* executeWebhook: render the body, then send with retries; fails is the number
\* of attempts that fail before one would succeed.
executeWebhook(w, st, fails) ==
    IF ~TemplateParses(w.Body)
    THEN [st EXCEPT !.err = "failed to parse webhook body template"]
    ELSE LET attempts == IF fails < w.RetryCount THEN fails + 1
                         ELSE IF w.RetryCount > 0 THEN w.RetryCount ELSE 0
         IN  [st EXCEPT
                !.sent = @ \o [i \in 1..attempts |-> w.Name],
                !.err  = IF fails < w.RetryCount THEN ""
                         ELSE "webhook execution failed"]

shouldExecute(w, status) ==
    \/ w.Trigger = "always"
    \/ (w.Trigger = "success" /\ status = "success")
    \/ (w.Trigger = "failure" /\ status = "failure")

RECURSIVE executeWebhookWithReferences(_, _, _, _, _)
RECURSIVE executeReferences(_, _, _, _, _, _)

executeReferences(refs, i, status, st, reg, oracle) ==
    IF i > Len(refs) THEN [st EXCEPT !.err = ""]
    ELSE IF refs[i] \in DOMAIN reg
    THEN LET r == executeWebhookWithReferences(reg[refs[i]], status, st, reg, oracle)
         IN  IF r.err # ""
             THEN [r EXCEPT !.err = "failed to execute referenced webhook"]
             ELSE executeReferences(refs, i + 1, status, r, reg, oracle)
    ELSE executeReferences(refs, i + 1, status, st, reg, oracle)

executeWebhookWithReferences(w, status, st, reg, oracle) ==
    IF w.Name \in st.executed THEN [st EXCEPT !.err = ""]
    ELSE LET marked == [st EXCEPT !.executed = @ \cup {w.Name}]
             after  == executeReferences(w.References, 1, status, marked, reg, oracle)
         IN  IF after.err # "" THEN after
             ELSE IF ~shouldExecute(w, status) THEN after
             ELSE executeWebhook(w, after, oracle[w.Name])

\* ExecuteWebhooks: every top-level webhook with a fresh executed map; errors
\* are logged. The result is the sequence of requests sent.
RECURSIVE ExecuteWebhooks(_, _, _, _, _)
ExecuteWebhooks(configs, i, status, reg, oracle) ==
    IF i > Len(configs) THEN <<>>
    ELSE executeWebhookWithReferences(
             configs[i], status, DispatchState({}, <<>>, ""), reg, oracle).sent
         \o ExecuteWebhooks(configs, i + 1, status, reg, oracle)

(***************************************************************************)
(* syncFiles                                                               *)
(***************************************************************************)
\* Mutant: the validation accepts every job.
validateJob_acceptsAll(j) == ""

validateJob(j) ==
    IF j.RemotePath # <<>> /\ j.KeepStructure
    THEN "remote_path and keep_structure cannot be used together"
    ELSE ""

\* The separator of the host's file system.
OSSeparator == Sep

ToSlash(p) == [i \in 1..Len(p) |-> IF p[i] = OSSeparator THEN Sep ELSE p[i]]

normalizeSourcePath(path) ==
    LET slashed  == ToSlash(path)
        stripped == IF HasPrefix(slashed, <<".", Sep>>) THEN Drop(slashed, 2)
                    ELSE slashed
    IN  IF HasChar(stripped, "*") THEN stripped
        ELSE IF Len(stripped) > 0 /\ stripped[Len(stripped)] = Sep
        THEN stripped \o <<"*", "*">>
        ELSE stripped \o <<Sep, "*", "*">>

\* The order in which filepath.Walk visits the files of the source tree:
\* the entries of each directory by name, a directory's content right after it.
WalkOrder ==
    << <<"s", Sep, "a", ".", "t">>,
       <<"s", Sep, "b", ".", "m">>,
       <<"s", Sep, "d", Sep, "a", ".", "t">> >>

\* The absolute paths of the directories that exist, given the files (relative
\* to the working directory) of the source tree.
ExistingDirs(tree) ==
    { WorkDir } \cup
    UNION { { Join(WorkDir, Take(f, i - 1)) : i \in { k \in 1..Len(f) : f[k] = Sep } } :
            f \in tree }

\* The files filepath.Walk(root) hands to the callback without an error, as
\* absolute paths in walk order. A root that does not exist is reported to the
\* callback as an error, which the callback logs and drops.
WalkFiles(tree, root) ==
    IF root \notin ExistingDirs(tree) THEN <<>>
    ELSE LET below == SelectSeq(WalkOrder,
                          LAMBDA f : f \in tree /\ HasPrefix(Join(WorkDir, f), root \o <<Sep>>))
         IN  [i \in 1..Len(below) |-> Join(WorkDir, below[i])]

\* The matches of syncFiles: the walked files whose path relative to the
\* working directory matches the normalized source pattern.
WalkMatches(tree, pattern) ==
    SelectSeq(WalkFiles(tree, Join(WorkDir, Dir(pattern))),
              LAMBDA path :
                  LET m == Match(pattern, ToSlash(Rel(WorkDir, path)))
                  IN  ~m.err /\ m.matched)

\* Mutant: every layout flattens to the base name under the repository root.
destPath_alwaysFlat(j, path) == Join(GetRepoPath(j), Base(path))

\* The destination of a matched file, relative to the working directory.
destPath(j, path) ==
    IF j.KeepStructure THEN Join(GetRepoPath(j), ToSlash(Rel(WorkDir, path)))
    ELSE IF j.RemotePath # <<>> THEN Join(Join(GetRepoPath(j), j.RemotePath), Base(path))
    ELSE Join(GetRepoPath(j), Base(path))

\* What the copy of one matched file meets: it succeeds ("ok"), the
\* destination directory cannot be created ("mkdir"), copyFile fails before
\* the destination file is created ("open"), or it fails while the content is
\* being written ("partial").
CopyResults == { "ok", "mkdir", "open", "partial" }

PartialContent == <<"partial">>

\* What a pass meets: every copy succeeds, or the copy of one file fails.
CopyPlans ==
    { [f \in AllSourceFiles |-> "ok"] } \cup
    { [f \in AllSourceFiles |-> IF f = g THEN r ELSE "ok"] :
          g \in AllSourceFiles, r \in CopyResults \ {"ok"} }

SyncOutcome(d, err, writes) == [d |-> d, err |-> err, writes |-> writes]

\* Mutant: the first failed copy ends the loop and syncFiles with an error.
RECURSIVE copyMatches_stopsAtFailure(_, _, _, _, _, _)
copyMatches_stopsAtFailure(matches, i, d, j, copyResult, writes) ==
    IF i > Len(matches) THEN SyncOutcome(d, "", writes)
    ELSE LET src == Rel(WorkDir, matches[i])
             dst == Rel(GetRepoPath(j), destPath(j, matches[i]))
         IN  IF copyResult[src] # "ok"
             THEN SyncOutcome(d, "failed to copy file", writes)
             ELSE copyMatches_stopsAtFailure(matches, i + 1,
                      [d EXCEPT !.present = TRUE, !.wt = Put(@, dst, src)],
                      j, copyResult, writes \cup {Dir(dst), dst})

\* The loop over the matches: copyResult tells, per source file, what its copy
\* meets. A failed copy is logged and the loop goes on. writes collects the
\* directories created and the files written, relative to the repository
\* directory.
RECURSIVE copyMatches(_, _, _, _, _, _)
copyMatches(matches, i, d, j, copyResult, writes) ==
    IF i > Len(matches) THEN SyncOutcome(d, "", writes)
    ELSE LET src  == Rel(WorkDir, matches[i])
             dst  == Rel(GetRepoPath(j), destPath(j, matches[i]))
             made == [d EXCEPT !.present = TRUE]
         IN  IF copyResult[src] = "mkdir"
             THEN copyMatches(matches, i + 1, d, j, copyResult, writes)
             ELSE IF copyResult[src] = "open"
             THEN copyMatches(matches, i + 1, made, j, copyResult,
                              writes \cup {Dir(dst)})
             ELSE copyMatches(matches, i + 1,
                      [made EXCEPT !.wt = Put(@, dst,
                          IF copyResult[src] = "ok" THEN src ELSE PartialContent)],
                      j, copyResult, writes \cup {Dir(dst), dst})

\* The matched files whose destination directory or copy failed in a call of
\* syncFiles, each with how it failed.
failedCopies(j, tree, getwdFails, copyResult) ==
    IF validateJob(j) # "" \/ getwdFails THEN {}
    ELSE LET matches == WalkMatches(tree, normalizeSourcePath(ToSlash(j.SourcePath)))
         IN  { <<Rel(WorkDir, matches[i]), copyResult[Rel(WorkDir, matches[i])]>> :
                   i \in { k \in 1..Len(matches) :
                              copyResult[Rel(WorkDir, matches[k])] # "ok" } }

\* Mutant: syncFiles empties the working copy before it copies.
staleFiles_removed(d) == [d EXCEPT !.wt = EmptyMap]

\* What syncFiles does to the files already in the repository directory
\* before it copies: nothing, it has no delete or rename.
staleFiles(d) == d

\* syncFiles(job) on directory d, with the source tree given.
syncFiles(d, j, tree, getwdFails, copyResult) ==
    IF validateJob(j) # "" THEN SyncOutcome(d, validateJob(j), {})
    ELSE IF getwdFails THEN SyncOutcome(d, "failed to get working directory", {})
    ELSE LET pattern == normalizeSourcePath(ToSlash(j.SourcePath))
             matches == WalkMatches(tree, pattern)
         IN  IF Len(matches) = 0 THEN SyncOutcome(d, "", {})
             ELSE copyMatches(matches, 1, staleFiles(d), j, copyResult, {})

(***************************************************************************)
(* commitChanges                                                           *)
(***************************************************************************)
CommitFaultKinds == { "status", "add", "config", "commit", "fetch", "rebase", "push" }

CommitFaults ==
    { {} } \cup { {f} : f \in CommitFaultKinds }
           \cup { {"fetch", "rebase"}, {"fetch", "push"} }

PushOutcome(d, rem, err, issued) == [d |-> d, remote |-> rem, err |-> err, cmds |-> issued]

\* git push [-f] origin <branch>: the branch must exist and origin be set.
push(o, branch, faults, command, failure) ==
    IF "push" \in faults \/ o.d.origin = NoURL \/ branch \notin DOMAIN o.d.trees
    THEN PushOutcome(o.d, o.remote, failure, o.cmds \o <<command>>)
    ELSE PushOutcome([o.d EXCEPT !.remoteRefs = @ \cup {branch}],
                     Put(o.remote, branch, o.d.trees[branch]), "",
                     o.cmds \o <<command>>)

\* Mutant: the normal push carries -f.
normalPush_forces(o, j, faults) == push(o, j.Branch, faults, "push -f", "git push failed")

normalPush(o, j, faults) == push(o, j.Branch, faults, "push", "git push failed")

forcePush(o, j, faults) == push(o, j.Branch, faults, "push -f", "git force push failed")

\* How "git rebase origin/<branch>" ends: it fails when the command fails or
\* the repository has no remote-tracking ref of the branch.
gitRebase(d, j, faults) ==
    IF "rebase" \in faults \/ j.Branch \notin d.remoteRefs THEN "failed" ELSE "ok"

\* Mutant: the two pushes of the older engine: a failed rebase is aborted and
\* the commit is pushed with force.
rebaseAndPush_forceFallback(o, j, faults) ==
    IF gitRebase(o.d, j, faults) = "failed"
    THEN push([o EXCEPT !.cmds = @ \o <<"rebase", "rebase --abort">>], j.Branch, faults,
              "push -f", "git force push failed")
    ELSE push([o EXCEPT !.cmds = @ \o <<"rebase">>], j.Branch, faults,
              "push", "git push failed")

rebaseAndPush(o, j, faults) ==
    IF gitRebase(o.d, j, faults) = "failed"
    THEN PushOutcome(o.d, o.remote, "git rebase failed",
                     o.cmds \o <<"rebase", "rebase --abort">>)
    ELSE normalPush([o EXCEPT !.cmds = @ \o <<"rebase">>], j, faults)

\* git fetch origin <branch>: origin must be set and hold the branch.
gitFetch(d, j, rem, faults) ==
    IF "fetch" \notin faults /\ d.origin # NoURL /\ j.Branch \in DOMAIN rem
    THEN "ok" ELSE "failed"

\* Mutant: a failed fetch ends commitChanges with an error.
fetchError_fatal(got) == IF got = "failed" THEN "git fetch failed" ELSE ""

\* The error commitChanges returns for the outcome of the fetch: none, a
\* failure is logged as a warning.
fetchError(got) == ""

\* What "git status --porcelain" tells commitChanges: it fails (also where
\* there is no repository), or its output is empty ("clean") or not ("dirty").
gitStatus(d, faults) ==
    IF ~d.git \/ "status" \in faults THEN "failed"
    ELSE IF d.wt = HeadTree(d) THEN "clean"
    ELSE "dirty"

\* strings.ToLower on the strategy names of the model.
ToLower(str) == IF str = "REBASE" THEN "rebase" ELSE IF str = "FORCE" THEN "force" ELSE str

\* Mutant: a clean working tree does not end commitChanges.
commitChanges_noCleanCheck(d, u, j, rem, faults) ==
    IF ~d.present
    THEN PushOutcome(d, rem, "repository directory does not exist", <<>>)
    ELSE IF gitStatus(d, faults) = "failed"
    THEN PushOutcome(d, rem, "failed to check git status", <<"status">>)
    ELSE PushOutcome([d EXCEPT !.trees = Put(@, d.head, d.wt)], rem, "",
                     <<"status", "add", "config user.name", "config user.email", "commit">>)

\* commitChanges(user, job) on directory d, with the remote repository rem.
commitChanges(d, u, j, rem, faults) ==
    IF ~d.present
    THEN PushOutcome(d, rem, "repository directory does not exist", <<>>)
    ELSE IF gitStatus(d, faults) = "failed"
    THEN PushOutcome(d, rem, "failed to check git status", <<"status">>)
    ELSE IF gitStatus(d, faults) = "clean"
    THEN PushOutcome(d, rem, "", <<"status">>)
    ELSE IF "add" \in faults
    THEN PushOutcome(d, rem, "git add failed", <<"status", "add">>)
    ELSE IF "config" \in faults
    THEN PushOutcome(d, rem, "failed to set user.name",
                     <<"status", "add", "config user.name">>)
    ELSE LET configured == [d EXCEPT !.identity = u.Username]
             local == <<"status", "add", "config user.name", "config user.email", "commit">>
         IN  IF "commit" \in faults
             THEN PushOutcome(configured, rem, "git commit failed", local)
             ELSE LET committed == [configured EXCEPT !.trees = Put(@, d.head, d.wt)]
                  IN  IF j.RemoteURL = NoURL
                      THEN PushOutcome(committed, rem, "", local)
                      ELSE LET got == gitFetch(committed, j, rem, faults)
                               fetched ==
                                   IF got = "ok"
                                   THEN [committed EXCEPT !.remoteRefs = @ \cup {j.Branch}]
                                   ELSE committed
                               o == PushOutcome(fetched, rem, fetchError(got),
                                                local \o <<"fetch">>)
                           IN  IF o.err # "" THEN o
                               ELSE IF ToLower(j.MergeStrategy) = "rebase"
                               THEN rebaseAndPush(o, j, faults)
                               ELSE IF ToLower(j.MergeStrategy) = "force"
                               THEN forcePush(o, j, faults)
                               ELSE normalPush(o, j, faults)

(***************************************************************************)
(* Initial states                                                          *)
(***************************************************************************)
\* A tree an earlier process committed and pushed.
OldTree == Put(EmptyMap, <<"a", ".", "t">>, <<"s", Sep, "a", ".", "t">>)

\* A repository an earlier process left behind for job j: commits on "main",
\* pushed to origin, nothing uncommitted.
OldRepo(j) ==
    [ present    |-> TRUE,
      git        |-> TRUE,
      head       |-> "main",
      trees      |-> Put(EmptyMap, "main", OldTree),
      origin     |-> j.RemoteURL,
      remoteRefs |-> IF j.RemoteURL = NoURL THEN {} ELSE {"main"},
      identity   |-> "u1",
      wt         |-> OldTree ]

\* The worlds a process can start in: nothing on disk and an empty remote;
\* nothing on disk and a remote that holds "main"; a repository left by an
\* earlier process.
Worlds(j) ==
    { [dirs |-> [k \in DirKeys |-> NoDir], remote |-> EmptyMap],
      [dirs |-> [k \in DirKeys |-> NoDir], remote |-> Put(EmptyMap, "main", OldTree)],
      [dirs |-> [k \in DirKeys |-> IF k = DirKey(InitRepoDir(j)) THEN OldRepo(j) ELSE NoDir],
       remote |-> IF j.RemoteURL = NoURL THEN EmptyMap
                  ELSE Put(EmptyMap, "main", OldTree)] }

NoCtx == [Status |-> "", Error |-> ""]

\* The run variables before the first run.
RunQuiet ==
    /\ syncErr = ""
    /\ calls = <<>>
    /\ cmds = <<>>
    /\ fsWrites = {}
    /\ rets = <<>>
    /\ whCtx = NoCtx
    /\ whCalls = 0
    /\ sent = <<>>
    /\ statusOut = "-"
    /\ runs = 0
    /\ initHist = <<>>
    /\ rebaseOut = "-"
    /\ copyFails = {}
    /\ fetchOut = "-"

\* No call of ExecuteWebhooks is followed step by step.
HookQuiet ==
    /\ hNames = <<>>
    /\ hConfigs = <<>>
    /\ hStatus = ""
    /\ hpc = "off"
    /\ hTop = 0
    /\ hStack = <<>>
    /\ hExecuted = {}
    /\ hAttempt = 0
    /\ hErr = ""
    /\ hTrace = <<>>
    /\ hRet = "-"
    /\ hSleeps = 0

MatchQuiet ==
    /\ mPath = <<"d">>
    /\ mIncludes = <<>>
    /\ mExcludes = <<>>
    /\ mCalled = FALSE
    /\ mResult = FALSE

\* RegisterWebhook is not followed call by call.
RegQuiet ==
    /\ rIn = <<>>
    /\ rErr = "-"

\* No pair of concurrent jobs is followed.
PairQuiet ==
    /\ cJobs = <<>>
    /\ cPc = <<>>
    /\ cInitDir = <<>>
    /\ cRepos = <<>>
    /\ cLog = <<>>

\* The branches a fresh "git init" may start on (init.defaultBranch).
GitDefaultBranches == { "master", "main" }

\* The start of a process for one of the given jobs, in one of the given worlds.
InitWith(jobs, gitDefaults) ==
    /\ MatchQuiet
    /\ HookQuiet
    /\ PairQuiet
    /\ RegQuiet
    /\ user \in Users
    /\ job \in jobs
    /\ registry \in Registries
    /\ defaultBranch \in gitDefaults
    /\ srcFiles \in SourceTrees
    /\ \E w \in Worlds(job) : dirs = w.dirs /\ remote = w.remote
    /\ pc = "boot"
    /\ RunQuiet

Init == InitWith(Jobs, {"master"})

InitSync == InitWith(LayoutJobs, {"master"})

InitBranch == InitWith(BranchJobs, GitDefaultBranches)

InitWalk == InitWith(WalkJobs, {"master"})

\* The jobs of the first publish runs: a remote and the strategy rebase; the
\* webhooks vary.  There are files to copy, no repository yet and nothing on
\* the remote.
PublishJobs ==
    { JobRecord(<<"j">>, URL("https://", <<>>, "h/r"), wh, "", "rebase", <<>>, FALSE) :
        wh \in JobWebhookLists }

InitPublish ==
    /\ InitWith(PublishJobs, {"master"})
    /\ srcFiles # {}
    /\ remote = EmptyMap
    /\ ~dirs[DirKey(GetRepoPath(job))].git

\* The jobs of the runs over a changing source tree: the layout varies.
ChurnJobs ==
    { JobRecord(<<"j">>, NoURL, <<>>, "", "", rp, ks) : rp \in RemotePaths, ks \in BOOLEAN }

InitChurn == InitWith(ChurnJobs, {"master"})

\* Users of the remote runs: one without and one with HTTPS credentials.
CredentialUsers ==
    Users \cup { [Username |-> "u2", Email |-> "u2@x",
                  GitUsername |-> "g", GitPassword |-> "p"] }

\* The jobs of the remote runs: remote and branch vary.
RemoteJobs ==
    { JobRecord(<<"j">>, url, <<>>, br, "", <<>>, FALSE) :
        url \in RemoteURLs, br \in BranchNames }

\* The URLs origin may have in a repository an earlier process left behind:
\* none, the job's URL, and another repository's URL.
OldOrigins(j) == { NoURL, j.RemoteURL, URL("https://", <<>>, "h/old") }

\* The worlds of the remote runs: nothing on disk, or a repository left by an
\* earlier process whose origin is one of OldOrigins.
RemoteWorlds(j) ==
    { [dirs |-> [k \in DirKeys |-> NoDir], remote |-> EmptyMap] } \cup
    { [dirs |-> [k \in DirKeys |->
                    IF k = DirKey(InitRepoDir(j))
                    THEN [OldRepo(j) EXCEPT !.origin = url,
                                            !.remoteRefs = IF url = NoURL THEN {} ELSE {"main"}]
                    ELSE NoDir],
       remote |-> Put(EmptyMap, "main", OldTree)] : url \in OldOrigins(j) }

\* The start of a process of the remote runs.
InitRemote ==
    /\ MatchQuiet
    /\ HookQuiet
    /\ PairQuiet
    /\ RegQuiet
    /\ user \in CredentialUsers
    /\ job \in RemoteJobs
    /\ registry = EmptyMap
    /\ defaultBranch = "master"
    /\ srcFiles = AllSourceFiles
    /\ \E w \in RemoteWorlds(job) : dirs = w.dirs /\ remote = w.remote
    /\ pc = "boot"
    /\ RunQuiet

(***************************************************************************)
(* Actions                                                                 *)
(***************************************************************************)
Tagged(step, issued) == [i \in 1..Len(issued) |-> <<step, issued[i]>>]

InitRecord(d0, r, faults) ==
    [ err |-> r.err, head |-> r.d.head, faults |-> faults, cmds |-> r.cmds,
      existed  |-> d0.git,             \* repository metadata was there before
      branches |-> DOMAIN d0.trees,    \* the branches that existed before
      origin   |-> d0.origin,          \* origin's URL before
      originAfter |-> r.d.origin,      \* origin's URL after
      hasCommit |-> r.d.head \in DOMAIN r.d.trees ]  \* HEAD's branch has a commit

\* Mutant: an early return leaves syncJob without running the deferred dispatch.
afterStep_returnSkipsDispatch(err, next) == IF err # "" THEN "idle" ELSE next

\* Mutant: a failed step does not end the run.
afterStep_noReturn(err, next) == next

\* Where syncJob goes after a step: on an error it returns, which runs the
\* deferred function; otherwise it goes on to the next step.
afterStep(err, next) == IF err # "" THEN "defer" ELSE next

\* NewGitSync: initRepo for the job, on a copy of the Job value. A failure is
\* logged and start-up goes on.
Boot ==
    /\ pc = "boot"
    /\ \E faults \in InitFaults :
          LET key == DirKey(InitRepoDir(job))
              r   == initRepo(dirs[key], user, job, defaultBranch, faults)
          IN  /\ Effective(faults, r, initRepo(dirs[key], user, job, defaultBranch, {}))
              /\ dirs' = [dirs EXCEPT ![key] = r.d]
              /\ initHist' = <<InitRecord(dirs[key], r, faults)>>
    /\ pc' = "idle"
    /\ UNCHANGED <<matchVars, hookVars, pairVars, regVars, configVars, defaultBranch, srcFiles, remote>>
    /\ UNCHANGED <<syncErr, calls, cmds, fsWrites, rets, whCtx, whCalls, sent,
                   statusOut, runs, rebaseOut, copyFails, fetchOut>>

\* The scheduler fires: syncJob starts and calls initRepo.
JobInitRepo ==
    /\ pc = "idle"
    /\ runs < MaxRuns
    /\ \E faults \in InitFaults :
          LET key == DirKey(InitRepoDir(job))
              r   == initRepo(dirs[key], user, job, defaultBranch, faults)
          IN  /\ Effective(faults, r, initRepo(dirs[key], user, job, defaultBranch, {}))
              /\ dirs' = [dirs EXCEPT ![key] = r.d]
              /\ initHist' = Append(initHist, InitRecord(dirs[key], r, faults))
              /\ cmds' = Tagged("initRepo", r.cmds)
              /\ rets' = <<r.err>>
              /\ pc' = afterStep(r.err, "sync")
    /\ job' = [job EXCEPT !.Branch = BranchOrMain(job)]
    /\ syncErr' = ""
    /\ calls' = <<"initRepo">>
    /\ fsWrites' = {}
    /\ whCtx' = NoCtx
    /\ whCalls' = 0
    /\ sent' = <<>>
    /\ statusOut' = "-"
    /\ rebaseOut' = "-"
    /\ copyFails' = {}
    /\ fetchOut' = "-"
    /\ UNCHANGED <<matchVars, hookVars, pairVars, regVars, user, registry, defaultBranch, srcFiles, remote, runs>>

\* syncJob calls syncFiles.
JobSyncFiles ==
    /\ pc = "sync"
    /\ \E getwdFails \in BOOLEAN, copyResult \in CopyPlans :
          LET key == DirKey(GetRepoPath(job))
              r   == syncFiles(dirs[key], job, srcFiles, getwdFails, copyResult)
          IN  /\ dirs' = [dirs EXCEPT ![key] = r.d]
              /\ fsWrites' = r.writes
              /\ copyFails' = failedCopies(job, srcFiles, getwdFails, copyResult)
              /\ rets' = Append(rets, r.err)
              /\ pc' = afterStep(r.err, "commit")
    /\ calls' = Append(calls, "syncFiles")
    /\ initHist' = <<>>
    /\ UNCHANGED <<matchVars, hookVars, pairVars, regVars, configVars, defaultBranch, srcFiles, remote>>
    /\ UNCHANGED <<syncErr, cmds, whCtx, whCalls, sent, statusOut, runs, rebaseOut, fetchOut>>

\* syncJob calls commitChanges.
JobCommitChanges ==
    /\ pc = "commit"
    /\ \E faults \in CommitFaults :
          LET key == DirKey(GetRepoPath(job))
              r   == commitChanges(dirs[key], user, job, remote, faults)
              r0  == commitChanges(dirs[key], user, job, remote, {})
          IN  /\ Effective(faults, <<r, gitFetch(r.d, job, remote, faults)>>,
                                   <<r0, gitFetch(r0.d, job, remote, {})>>)
              /\ dirs' = [dirs EXCEPT ![key] = r.d]
              /\ remote' = r.remote
              /\ cmds' = cmds \o Tagged("commitChanges", r.cmds)
              /\ rets' = Append(rets, r.err)
              /\ statusOut' = IF dirs[key].present THEN gitStatus(dirs[key], faults)
                              ELSE "-"
              /\ rebaseOut' = IF \E i \in 1..Len(r.cmds) : r.cmds[i] = "rebase"
                              THEN gitRebase(r.d, job, faults) ELSE "-"
              /\ fetchOut' = IF \E i \in 1..Len(r.cmds) : r.cmds[i] = "fetch"
                             THEN gitFetch(r.d, job, remote, faults) ELSE "-"
              /\ pc' = afterStep(r.err, "defer")
    /\ calls' = Append(calls, "commitChanges")
    /\ initHist' = <<>>
    /\ UNCHANGED <<matchVars, hookVars, pairVars, regVars, configVars, defaultBranch, srcFiles>>
    /\ UNCHANGED <<syncErr, fsWrites, whCtx, whCalls, sent, runs, copyFails>>

\* The context the deferred function of syncJob completes.
finalContext(err) ==
    IF err # "" THEN [Status |-> "failure", Error |-> err]
    ELSE [Status |-> "success", Error |-> ""]

\* The deferred function of syncJob: complete the context and dispatch the
\* job's webhooks.
JobDeferred ==
    /\ pc = "defer"
    /\ IF Len(job.Webhooks) > 0
       THEN \E oracle \in HttpOracles :
               /\ whCtx' = finalContext(syncErr)
               /\ whCalls' = whCalls + 1
               /\ calls' = Append(calls, "ExecuteWebhooks")
               /\ sent' = ExecuteWebhooks(GetWebhooksByNames(registry, job.Webhooks), 1,
                                          finalContext(syncErr).Status, registry, oracle)
       ELSE UNCHANGED <<whCtx, whCalls, calls, sent>>
    /\ runs' = runs + 1
    /\ pc' = "idle"
    /\ UNCHANGED <<matchVars, hookVars, pairVars, regVars, configVars, envVars>>
    /\ UNCHANGED <<syncErr, cmds, fsWrites, rets, statusOut, initHist, rebaseOut, copyFails,
                   fetchOut>>

Next == Boot \/ JobInitRepo \/ JobSyncFiles \/ JobCommitChanges \/ JobDeferred

\* Pipeline runs.
Spec == Init /\ [][Next]_vars

\* Pipeline runs over the destination layouts.
SpecSync == InitSync /\ [][Next]_vars

SpecWalk == InitWalk /\ [][Next]_vars

SpecRemote == InitRemote /\ [][Next]_vars

\* The positions of a run.
Positions == { "boot", "idle", "sync", "commit", "defer" }

\* The scheduler goes on firing the job until the last run, and every step of
\* a run returns: the position moves on.  Every step of Next changes pc, and
\* Next has a step in every state but the one after the last run.
Advance ==
    /\ ~(pc = "idle" /\ runs >= MaxRuns)
    /\ pc' \in Positions
    /\ pc' # pc

\* First publish runs: a step that can be taken is taken.
SpecPublish == InitPublish /\ [][Next]_vars /\ WF_pc(Advance)

\* Between two runs a file is removed from the source tree.
SourceChange ==
    /\ pc = "idle"
    /\ runs >= 1
    /\ \E f \in srcFiles : srcFiles' = srcFiles \ {f}
    /\ UNCHANGED <<matchVars, hookVars, pairVars, regVars, configVars, runVars>>
    /\ UNCHANGED <<defaultBranch, dirs, remote>>

NextChurn == Next \/ SourceChange

\* Job runs over a source tree that loses files between the runs.
SpecChurn == InitChurn /\ [][NextChurn]_vars

\* Pipeline runs over the branch configurations.
SpecInit == InitBranch /\ [][Next]_vars

(***************************************************************************)
(* The pattern matcher on its own                                          *)
(***************************************************************************)
\* A fixed configuration and environment for the runs of the matcher.
JobQuiet ==
    /\ user = [Username |-> "u1", Email |-> "u1@x", GitUsername |-> "", GitPassword |-> ""]
    /\ job = [ Name |-> <<"j">>, SourcePath |-> <<"s">>, RemoteURL |-> NoURL,
               Includes |-> <<>>, Excludes |-> <<>>, Webhooks |-> <<>>, Branch |-> "",
               MergeStrategy |-> "", RemotePath |-> <<>>, KeepStructure |-> FALSE ]
    /\ defaultBranch = "master"
    /\ srcFiles = {}
    /\ dirs = [k \in DirKeys |-> NoDir]
    /\ remote = EmptyMap
    /\ pc = "boot"
    /\ RunQuiet

PipelineQuiet == JobQuiet /\ registry = EmptyMap

InitMatch ==
    /\ mPath \in MatchPaths
    /\ mIncludes \in PatternLists
    /\ mExcludes \in PatternLists
    /\ mCalled = FALSE
    /\ mResult = FALSE
    /\ PipelineQuiet
    /\ HookQuiet
    /\ PairQuiet
    /\ RegQuiet

\* One call gs.shouldSync(path, includes, excludes).
CallShouldSync ==
    /\ ~mCalled
    /\ mCalled' = TRUE
    /\ mResult' = shouldSync(mPath, mIncludes, mExcludes)
    /\ UNCHANGED <<mPath, mIncludes, mExcludes, configVars, envVars, runVars, hookVars, pairVars, regVars>>

NextMatch == CallShouldSync

SpecMatch == InitMatch /\ [][NextMatch]_vars

(***************************************************************************)
(* One call of ExecuteWebhooks, step by step                               *)
(***************************************************************************)
MaxDepth == 5         \* calls of executeWebhookWithReferences the stack holds

HookNames == { "A", "B", "C" }

\* A config as the YAML gives it, before RegisterWebhook fills in defaults.
RawConfig(name, url, trigger, retryCount, body, refs) ==
    [ Name |-> name, URL |-> url, Method |-> "", Body |-> body, Trigger |-> trigger,
      RetryCount |-> retryCount, RetryDelay |-> 0, References |-> refs ]

\* The error RegisterWebhook returns for the config ("" is nil).
registerError(w) ==
    IF w.Name = "" THEN "webhook name cannot be empty"
    ELSE IF w.URL = <<>> THEN "webhook URL cannot be empty"
    ELSE ""

\* Mutant: a retry count and a retry delay of 0 are stored as they are.
RegisterWebhook_noRetryDefaults(reg, w) ==
    IF w.Name = "" \/ w.URL = <<>> THEN reg
    ELSE Put(reg, w.Name,
             [w EXCEPT !.Method = IF @ = "" THEN "POST" ELSE @,
                       !.Trigger = IF @ = "" THEN "always" ELSE @])

\* wm.RegisterWebhook(webhook) on the map reg: a config without a name or
\* without a URL is refused; the others are stored under their name with the
\* defaults filled in.
RegisterWebhook(reg, w) ==
    IF w.Name = "" \/ w.URL = <<>> THEN reg
    ELSE Put(reg, w.Name,
             [w EXCEPT !.Method = IF @ = "" THEN "POST" ELSE @,
                       !.Trigger = IF @ = "" THEN "always" ELSE @,
                       !.RetryCount = IF @ = 0 THEN 3 ELSE @,
                       !.RetryDelay = IF @ = 0 THEN 5 ELSE @])

\* The map after RegisterWebhook was called for each of the configs in turn.
RECURSIVE RegisterAll(_, _, _)
RegisterAll(reg, configs, i) ==
    IF i > Len(configs) THEN reg
    ELSE RegisterAll(RegisterWebhook(reg, configs[i]), configs, i + 1)

\* The reference graphs of the registries: a cycle of two, a self-reference, a
\* diamond (A names B and C, C names B), a cycle of three, and a reference to
\* a name that is not registered.
ReferenceGraphs ==
    { [A |-> <<"B">>, B |-> <<"A">>, C |-> <<>>],
      [A |-> <<"A">>, B |-> <<>>, C |-> <<>>],
      [A |-> <<"B", "C">>, B |-> <<>>, C |-> <<"B">>],
      [A |-> <<"B">>, B |-> <<"C">>, C |-> <<"A">>],
      [A |-> <<"X", "B">>, B |-> <<>>, C |-> <<>>] }

\* The triggers of the registries: none given, all the same, or mixed.
TriggerPlans ==
    { [A |-> "", B |-> "", C |-> ""],
      [A |-> "success", B |-> "success", C |-> "success"],
      [A |-> "failure", B |-> "failure", C |-> "failure"],
      [A |-> "success", B |-> "failure", C |-> "always"] }

\* retry_count of webhook A: not given, one, two, or negative.
RetryCounts == { 0, 1, 2, -1 }

\* Body templates: one that parses and one that does not.
Bodies == { "{{.Status}}", "{{" }

\* The configs handed to RegisterWebhook, one call each: A, B and C, and a
\* config without a URL, which RegisterWebhook refuses with an error.
HookConfigLists ==
    { << RawConfig("A", <<"http://hook/", "A">>, t.A, rc, "{{.Status}}", g.A),
         RawConfig("B", <<"http://hook/", "B">>, t.B, 1, body, g.B),
         RawConfig("C", <<"http://hook/", "C">>, t.C, 1, "{{.Status}}", g.C),
         RawConfig("D", <<>>, "", 1, "{{.Status}}", <<>>) >> :
        g \in ReferenceGraphs, t \in TriggerPlans, rc \in RetryCounts, body \in Bodies }

HookRegistries == { RegisterAll(EmptyMap, configs, 1) : configs \in HookConfigLists }

\* The names a job hands to GetWebhooksByNames; X and D are not registered.
HookNameLists ==
    { <<>>, <<"A">>, <<"B">>, <<"A", "B">>, <<"B", "A">>, <<"X", "A">>, <<"C", "D", "A">> }

\* An entry of hTrace: a top-level call ("call", n the index in the list), an
\* already executed webhook left alone ("skip"), a webhook its trigger holds
\* back ("gated"), a template that does not parse ("template"), one HTTP
\* request ("send", n the attempt, ok whether the response was 2xx), and a
\* top-level failure logged ("log", n the index in the list).
Event(ev, name, n, ok) == [ev |-> ev, name |-> name, n |-> n, ok |-> ok]

Frame(w) == [w |-> w, ref |-> 1]

TopFrame == hStack[Len(hStack)]

\* Mutant: the lookup in the executed map never finds the name.
alreadyExecuted_never(executed, name) == FALSE

\* executed[webhook.Name]
alreadyExecuted(executed, name) == name \in executed

\* Mutant: the map remembers only the webhook entered last.
markExecuted_onlyLast(executed, name) == {name}

\* executed[webhook.Name] = true
markExecuted(executed, name) == executed \cup {name}

\* Mutant: the retry loop makes one attempt more than RetryCount.
retryLoopRuns_oneMore(i, retryCount) == i <= retryCount

\* The condition of executeWebhook's loop: i < webhook.RetryCount
retryLoopRuns(i, retryCount) == i < retryCount

\* Mutant: the error of a top-level webhook ends ExecuteWebhooks.
afterTopLevel_returnsError(err) == IF err # "" THEN "done" ELSE "loop"

\* ExecuteWebhooks after a top-level webhook returned: its error is logged
\* and the loop goes on.
afterTopLevel(err) == "loop"

\* Mutant: the error of a referenced webhook is dropped and the loop over the
\* references goes on.
refFailed_ignored(err) == FALSE

\* The test of the loop over webhook.References on what the referenced
\* webhook returned: err != nil
refFailed(err) == err # ""

\* The start of a call of ExecuteWebhooks: names, status and registry given.
InitHook ==
    /\ MatchQuiet
    /\ PairQuiet
    /\ RegQuiet
    /\ JobQuiet
    /\ registry \in HookRegistries
    /\ hNames \in HookNameLists
    /\ hStatus \in {"success", "failure"}
    /\ hConfigs = <<>>
    /\ hpc = "resolve"
    /\ hTop = 0
    /\ hStack = <<>>
    /\ hExecuted = {}
    /\ hAttempt = 0
    /\ hErr = ""
    /\ hTrace = <<>>
    /\ hRet = "-"
    /\ hSleeps = 0

\* The deferred function of syncJob resolves the job's webhook names.
HookResolve ==
    /\ hpc = "resolve"
    /\ hConfigs' = GetWebhooksByNames(registry, hNames)
    /\ hTop' = 1
    /\ hpc' = "loop"
    /\ UNCHANGED <<hNames, hStatus, hStack, hExecuted, hAttempt, hErr, hTrace, hRet>>
    /\ UNCHANGED hSleeps
    /\ UNCHANGED <<matchVars, configVars, envVars, runVars, pairVars, regVars>>

\* The loop of ExecuteWebhooks: the next top-level webhook is executed with a
\* new executed map, or the list is through and ExecuteWebhooks returns nil.
HookLoop ==
    /\ hpc = "loop"
    /\ IF hTop > Len(hConfigs)
       THEN /\ hpc' = "done"
            /\ hRet' = "nil"
            /\ UNCHANGED <<hStack, hExecuted, hTrace>>
       ELSE /\ Len(hStack) < MaxDepth
            /\ hStack' = Append(hStack, Frame(hConfigs[hTop]))
            /\ hExecuted' = {}
            /\ hTrace' = Append(hTrace, Event("call", hConfigs[hTop].Name, hTop, TRUE))
            /\ hpc' = "enter"
            /\ UNCHANGED hRet
    /\ UNCHANGED <<hNames, hConfigs, hStatus, hTop, hAttempt, hErr>>
    /\ UNCHANGED hSleeps
    /\ UNCHANGED <<matchVars, configVars, envVars, runVars, pairVars, regVars>>

\* executeWebhookWithReferences begins: a webhook already executed returns
\* nil, any other is marked.
HookEnter ==
    /\ hpc = "enter"
    /\ IF alreadyExecuted(hExecuted, TopFrame.w.Name)
       THEN /\ hErr' = ""
            /\ hpc' = "return"
            /\ hTrace' = Append(hTrace, Event("skip", TopFrame.w.Name, 0, TRUE))
            /\ UNCHANGED hExecuted
       ELSE /\ hExecuted' = markExecuted(hExecuted, TopFrame.w.Name)
            /\ hpc' = "refs"
            /\ UNCHANGED <<hErr, hTrace>>
    /\ UNCHANGED <<hNames, hConfigs, hStatus, hTop, hStack, hAttempt, hRet>>
    /\ UNCHANGED hSleeps
    /\ UNCHANGED <<matchVars, configVars, envVars, runVars, pairVars, regVars>>

\* Mutant: the references are executed only if the webhook's own trigger
\* matches the status.
runsReferences_onlyIfTriggered(w, status) == shouldExecute(w, status)

\* Whether the loop over webhook.References runs: always, the trigger is
\* evaluated after it.
runsReferences(w, status) == TRUE

\* Mutant: a name that is not registered ends the loop over the references.
afterUnknownRef_stops(f) == Len(f.w.References) + 1

\* Where the loop over webhook.References goes on after a name that is not
\* registered: at the next reference.
afterUnknownRef(f) == f.ref + 1

\* The loop over webhook.References: a registered reference is executed, any
\* other name is passed over.
HookRefs ==
    /\ hpc = "refs"
    /\ LET f == TopFrame
       IN  IF f.ref > Len(f.w.References) \/ ~runsReferences(f.w, hStatus)
           THEN hpc' = "gate" /\ UNCHANGED hStack
           ELSE IF f.w.References[f.ref] \in DOMAIN registry
           THEN /\ Len(hStack) < MaxDepth
                /\ hStack' = Append(hStack, Frame(registry[f.w.References[f.ref]]))
                /\ hpc' = "enter"
           ELSE /\ hStack' = [hStack EXCEPT ![Len(hStack)].ref = afterUnknownRef(f)]
                /\ hpc' = "refs"
    /\ UNCHANGED <<hNames, hConfigs, hStatus, hTop, hExecuted, hAttempt, hErr, hTrace, hRet>>
    /\ UNCHANGED hSleeps
    /\ UNCHANGED <<matchVars, configVars, envVars, runVars, pairVars, regVars>>

\* The trigger is evaluated; executeWebhook then parses the body template.
HookGate ==
    /\ hpc = "gate"
    /\ LET w == TopFrame.w
       IN  IF ~shouldExecute(w, hStatus)
           THEN /\ hErr' = ""
                /\ hpc' = "return"
                /\ hTrace' = Append(hTrace, Event("gated", w.Name, 0, TRUE))
                /\ UNCHANGED <<hAttempt, hSleeps>>
           ELSE IF ~TemplateParses(w.Body)
           THEN /\ hErr' = "failed to parse webhook body template"
                /\ hpc' = "return"
                /\ hTrace' = Append(hTrace, Event("template", w.Name, 0, FALSE))
                /\ UNCHANGED <<hAttempt, hSleeps>>
           ELSE /\ hAttempt' = 0
                /\ hSleeps' = 0
                /\ hpc' = "send"
                /\ UNCHANGED <<hErr, hTrace>>
    /\ UNCHANGED <<hNames, hConfigs, hStatus, hTop, hStack, hExecuted, hRet>>
    /\ UNCHANGED <<matchVars, configVars, envVars, runVars, pairVars, regVars>>

\* Whether executeWebhook sleeps RetryDelay seconds after attempt i (counted
\* from 0) failed: time.Sleep follows every failed request, the last included.
sleepsAfterFailure(i, retryCount) == TRUE

\* One pass of executeWebhook's loop: a request is sent; a 2xx response ends
\* executeWebhook with nil, anything else is followed by the sleep and i++.
\* When the loop is through, executeWebhook returns the error.
HookSend ==
    /\ hpc = "send"
    /\ LET w == TopFrame.w
       IN  IF retryLoopRuns(hAttempt, w.RetryCount)
           THEN \E ok \in BOOLEAN :
                   /\ hTrace' = Append(hTrace, Event("send", w.Name, hAttempt + 1, ok))
                   /\ IF ok
                      THEN /\ hErr' = ""
                           /\ hpc' = "return"
                           /\ UNCHANGED <<hAttempt, hSleeps>>
                      ELSE /\ hAttempt' = hAttempt + 1
                           /\ hSleeps' = IF sleepsAfterFailure(hAttempt, w.RetryCount)
                                         THEN hSleeps + 1 ELSE hSleeps
                           /\ UNCHANGED <<hErr, hpc>>
           ELSE /\ hErr' = "webhook execution failed"
                /\ hpc' = "return"
                /\ UNCHANGED <<hAttempt, hTrace, hSleeps>>
    /\ UNCHANGED <<hNames, hConfigs, hStatus, hTop, hStack, hExecuted, hRet>>
    /\ UNCHANGED <<matchVars, configVars, envVars, runVars, pairVars, regVars>>

\* executeWebhookWithReferences returns hErr: to ExecuteWebhooks, which logs
\* an error and goes on, or to the loop over the references of its caller,
\* which returns on an error.
HookReturn ==
    /\ hpc = "return"
    /\ IF Len(hStack) = 1
       THEN /\ hStack' = <<>>
            /\ hTrace' = IF hErr # ""
                         THEN Append(hTrace, Event("log", TopFrame.w.Name, hTop, FALSE))
                         ELSE hTrace
            /\ hTop' = hTop + 1
            /\ hpc' = afterTopLevel(hErr)
            /\ hRet' = IF afterTopLevel(hErr) = "done" THEN hErr ELSE hRet
            /\ hErr' = ""
       ELSE /\ IF refFailed(hErr)
               THEN /\ hErr' = "failed to execute referenced webhook"
                    /\ hpc' = "return"
                    /\ hStack' = Take(hStack, Len(hStack) - 1)
               ELSE /\ hStack' = [Take(hStack, Len(hStack) - 1)
                                     EXCEPT ![Len(hStack) - 1].ref = @ + 1]
                    /\ hpc' = "refs"
                    /\ UNCHANGED hErr
            /\ UNCHANGED <<hTop, hTrace, hRet>>
    /\ UNCHANGED <<hNames, hConfigs, hStatus, hExecuted, hAttempt>>
    /\ UNCHANGED hSleeps
    /\ UNCHANGED <<matchVars, configVars, envVars, runVars, pairVars, regVars>>

NextHook ==
    HookResolve \/ HookLoop \/ HookEnter \/ HookRefs \/ HookGate \/ HookSend \/ HookReturn

\* One call of ExecuteWebhooks; every call it makes returns, so a step that
\* can be taken is taken.
SpecHook == InitHook /\ [][NextHook]_vars /\ WF_vars(NextHook)

(***************************************************************************)
(* Calls of RegisterWebhook                                                *)
(***************************************************************************)
\* The configs handed to RegisterWebhook: name, URL, method, trigger, retry
\* count and retry delay each given or not; counts and delays also negative.
RegInputs ==
    { [RawConfig(n, u, t, rc, "{{.Status}}", <<>>) EXCEPT !.Method = m, !.RetryDelay = rd] :
        n \in {"", "A"}, u \in { <<>>, <<"http://hook/", "A">> },
        t \in {"", "success"}, rc \in {0, 2, -1}, m \in {"", "GET"}, rd \in {0, 7, -1} }

\* An empty manager (NewWebhookManager).
InitRegister ==
    /\ MatchQuiet
    /\ HookQuiet
    /\ PipelineQuiet
    /\ PairQuiet
    /\ RegQuiet

\* One call wm.RegisterWebhook(w).
Register ==
    /\ \E w \in RegInputs :
          /\ rIn' = w
          /\ rErr' = registerError(w)
          /\ registry' = RegisterWebhook(registry, w)
    /\ UNCHANGED <<matchVars, user, job, envVars, runVars, hookVars, pairVars>>

NextRegister == Register

SpecRegister == InitRegister /\ [][NextRegister]_vars

(***************************************************************************)
(* Two jobs of different users, run concurrently                           *)
(***************************************************************************)
\* Job names of the pair: a plain name, two names sanitizePath maps to one
\* directory name, and a name that ends in a separator.
PairNames ==
    { <<"a">>, <<"a", " ", "b">>, <<"a", "-", "b">>, <<"a", Sep>> }

\* The owner of job i of the pair.
PairUser(i) ==
    CHOOSE u \in CredentialUsers : u.Username = (IF i = 1 THEN "u1" ELSE "u2")

\* The names under .git-syncer of the directories the pair's steps use.
PairDirs ==
    { DirKey(GetRepoPath([Name |-> n])) : n \in PairNames } \cup
    { DirKey(InitRepoDir([Name |-> n])) : n \in PairNames }

\* A directory without a repository.
NoRepo == [git |-> FALSE, name |-> "", email |-> ""]

\* Two jobs with distinct names, owned by different users, both scheduled.
InitPair ==
    /\ MatchQuiet
    /\ RegQuiet
    /\ HookQuiet
    /\ PipelineQuiet
    /\ \E n1 \in PairNames, n2 \in PairNames :
          /\ n1 # n2
          /\ cJobs = << [User |-> PairUser(1), Name |-> n1],
                        [User |-> PairUser(2), Name |-> n2] >>
    /\ cPc = <<"init", "init">>
    /\ cInitDir = << <<>>, <<>> >>
    /\ cRepos = [k \in PairDirs |-> NoRepo]
    /\ cLog = <<>>

PairUnchanged == UNCHANGED <<matchVars, configVars, envVars, runVars, hookVars, regVars>>

\* initRepo of job i: the repository is created in the directory named by the
\* sanitized job name.
PairInitRepo ==
    /\ \E i \in 1..2 :
          /\ cPc[i] = "init"
          /\ LET k == DirKey(InitRepoDir(cJobs[i]))
             IN  /\ cRepos' = [cRepos EXCEPT ![k].git = TRUE]
                 /\ cInitDir' = [cInitDir EXCEPT ![i] = k]
          /\ cPc' = [cPc EXCEPT ![i] = "stage"]
    /\ UNCHANGED <<cJobs, cLog>>
    /\ PairUnchanged

\* syncFiles and the start of commitChanges of job i, in the directory
\* GetRepoPath names: the copied files make the tree dirty, and "git status"
\* and "git add ." succeed if the directory holds a repository; otherwise
\* commitChanges returns an error and the run is over.
PairStage ==
    /\ \E i \in 1..2 :
          /\ cPc[i] = "stage"
          /\ cPc' = [cPc EXCEPT ![i] =
                        IF cRepos[DirKey(GetRepoPath(cJobs[i]))].git
                        THEN "name" ELSE "done"]
    /\ UNCHANGED <<cJobs, cInitDir, cRepos, cLog>>
    /\ PairUnchanged

\* git config user.name <user.Username> in the job's directory.
PairConfigName ==
    /\ \E i \in 1..2 :
          /\ cPc[i] = "name"
          /\ cRepos' = [cRepos EXCEPT ![DirKey(GetRepoPath(cJobs[i]))].name =
                                         cJobs[i].User.Username]
          /\ cPc' = [cPc EXCEPT ![i] = "email"]
    /\ UNCHANGED <<cJobs, cInitDir, cLog>>
    /\ PairUnchanged

\* git config user.email <user.Email> in the job's directory.
PairConfigEmail ==
    /\ \E i \in 1..2 :
          /\ cPc[i] = "email"
          /\ cRepos' = [cRepos EXCEPT ![DirKey(GetRepoPath(cJobs[i]))].email =
                                         cJobs[i].User.Email]
          /\ cPc' = [cPc EXCEPT ![i] = "commit"]
    /\ UNCHANGED <<cJobs, cInitDir, cLog>>
    /\ PairUnchanged

\* git commit in the job's directory: the author is the repository-local
\* identity of that directory at this moment.
PairCommit ==
    /\ \E i \in 1..2 :
          /\ cPc[i] = "commit"
          /\ LET k == DirKey(GetRepoPath(cJobs[i]))
             IN  cLog' = Append(cLog, [job |-> i, dir |-> k,
                                       name |-> cRepos[k].name,
                                       email |-> cRepos[k].email])
          /\ cPc' = [cPc EXCEPT ![i] = "done"]
    /\ UNCHANGED <<cJobs, cInitDir, cRepos>>
    /\ PairUnchanged

NextPair ==
    \/ PairInitRepo
    \/ PairStage
    \/ PairConfigName
    \/ PairConfigEmail
    \/ PairCommit

\* The scheduler runs each job on its own goroutine: the steps of the two
\* runs interleave freely.
SpecPair == InitPair /\ [][NextPair]_vars

(***************************************************************************)
(* Pattern matcher properties                                              *)
(***************************************************************************)
\* Pattern p matches the path, as shouldSync reads doublestar.Match's answer.
PatternMatches(p, path) == Match(p, path).matched

AnyMatches(patterns, path) ==
    \E i \in 1..Len(patterns) : PatternMatches(patterns[i], path)

\* C5: whenever some exclude pattern matches the path, shouldSync returned
\* false, whatever the include list holds (exclude wins over include).
C5_ExcludeTakesPrecedence ==
    (mCalled /\ AnyMatches(mExcludes, mPath)) => mResult = FALSE

\* A path matched by an exclude pattern and by an include pattern was rejected.
C5_Witness ==
    /\ mCalled
    /\ AnyMatches(mExcludes, mPath)
    /\ AnyMatches(mIncludes, mPath)
    /\ mResult = FALSE

\* C6: for a path no exclude pattern matches, shouldSync returned true when
\* the include list is empty, and otherwise exactly when some include
\* pattern matches the path.
C6_IncludeDecides ==
    (mCalled /\ ~AnyMatches(mExcludes, mPath)) =>
        (mResult = (IF Len(mIncludes) = 0 THEN TRUE
                    ELSE AnyMatches(mIncludes, mPath)))

\* An empty include list accepted a path that the (non-empty) exclude list
\* does not match.
C6_Witness ==
    /\ mCalled
    /\ Len(mExcludes) > 0
    /\ ~AnyMatches(mExcludes, mPath)
    /\ mIncludes = <<>>
    /\ mResult = TRUE

\* A well-formed pattern that matches no path of the model.
NoMatchPattern == <<"#">>

Neutralised(patterns) ==
    [i \in 1..Len(patterns) |->
        IF Malformed(patterns[i]) THEN NoMatchPattern ELSE patterns[i]]

HasMalformed(patterns) == \E i \in 1..Len(patterns) : Malformed(patterns[i])

\* C7: a malformed pattern counts as not matching: the result of shouldSync
\* is the result of the same call with every malformed pattern replaced by a
\* pattern that matches nothing.
C7_MalformedIsNoMatch ==
    mCalled =>
        mResult = shouldSync(mPath, Neutralised(mIncludes), Neutralised(mExcludes))

\* A call with a malformed exclude pattern accepted the path on the strength
\* of the remaining patterns.
C7_Witness ==
    /\ mCalled
    /\ HasMalformed(mExcludes)
    /\ Len(mIncludes) > 0
    /\ mResult = TRUE

(***************************************************************************)
(* Pipeline properties                                                     *)
(***************************************************************************)
PipelineSteps == <<"initRepo", "syncFiles", "commitChanges">>

\* The pipeline steps invoked so far in this run.
StepsRun == SelectSeq(calls, LAMBDA c : c # "ExecuteWebhooks")

\* The job names at least one registered webhook.
NamesRegisteredWebhook ==
    \E i \in 1..Len(job.Webhooks) : job.Webhooks[i] \in DOMAIN registry

\* A run is under way, its deferred function not yet executed.
InRun == pc \in {"sync", "commit", "defer"}

\* A run has ended.
RunOver == pc = "idle" /\ calls # <<>>

\* C1: in a run of a job that names a registered webhook, ExecuteWebhooks is
\* not invoked while the pipeline steps run, and when the run has ended it has
\* been invoked exactly once, as the last call, after every step that ran had
\* returned.
C1_DispatchOnceAfterSteps ==
    NamesRegisteredWebhook =>
        /\ InRun => (whCalls = 0 /\ \A i \in 1..Len(calls) : calls[i] # "ExecuteWebhooks")
        /\ RunOver =>
              /\ whCalls = 1
              /\ calls[Len(calls)] = "ExecuteWebhooks"
              /\ \A i \in 1..(Len(calls) - 1) : calls[i] # "ExecuteWebhooks"
              /\ Len(rets) = Len(calls) - 1

\* A run whose initRepo failed has ended with one dispatch.
C1_Witness ==
    /\ NamesRegisteredWebhook
    /\ RunOver
    /\ calls = <<"initRepo", "ExecuteWebhooks">>
    /\ rets[1] # ""
    /\ whCalls = 1

\* Some step of this run returned an error.
SomeStepFailed == \E i \in 1..Len(rets) : rets[i] # ""

\* C2: the context handed to ExecuteWebhooks carries Status "failure" and the
\* step's error when a step of the run returned an error, and Status "success"
\* with no error only when every step returned without error.
C2_ContextCarriesOutcome ==
    whCalls = 1 =>
        IF SomeStepFailed
        THEN /\ whCtx.Status = "failure"
             /\ \E i \in 1..Len(rets) : rets[i] # "" /\ whCtx.Error = rets[i]
        ELSE whCtx = [Status |-> "success", Error |-> ""]

\* C3: the steps of a run are invoked in the order initRepo, syncFiles,
\* commitChanges, and a step is invoked only if every earlier step of the run
\* returned without error.
C3_StepsInOrder ==
    /\ Len(StepsRun) <= Len(PipelineSteps)
    /\ \A i \in 1..Len(StepsRun) : StepsRun[i] = PipelineSteps[i]
    /\ \A i \in 1..(Len(StepsRun) - 1) : rets[i] = ""

\* A failed syncFiles ended the steps of a run: commitChanges was not invoked.
C3_Witness ==
    /\ RunOver
    /\ StepsRun = <<"initRepo", "syncFiles">>
    /\ rets[1] = ""
    /\ rets[2] # ""

\* syncFiles ran in this run and returned without error.
SyncSucceeded == Len(rets) >= 2 /\ calls[2] = "syncFiles" /\ rets[2] = ""

\* The directory syncFiles and commitChanges work in.
JobDir == dirs[DirKey(GetRepoPath(job))]

\* The files of the source tree below the job's source path that shouldSync
\* accepts under the job's rules, by their path relative to the source path.
AcceptedSources ==
    { f \in srcFiles :
        /\ HasPrefix(f, job.SourcePath \o <<Sep>>)
        /\ shouldSync(Rel(job.SourcePath, f), job.Includes, job.Excludes) }

\* C4: after a successful syncFiles the files it wrote are exactly the source
\* files shouldSync accepts: no rejected file was written, and every accepted
\* file was.
C4_OnlyAcceptedFilesCopied ==
    SyncSucceeded =>
        /\ \A dst \in fsWrites \cap DOMAIN JobDir.wt :
              JobDir.wt[dst] \in srcFiles => JobDir.wt[dst] \in AcceptedSources
        /\ \A f \in AcceptedSources :
              \E dst \in fsWrites \cap DOMAIN JobDir.wt : JobDir.wt[dst] = f

\* The job sets both remote_path and keep_structure.
LayoutConflict == job.RemotePath # <<>> /\ job.KeepStructure

\* C8: a call of syncFiles on a job with both remote_path and keep_structure
\* returns the validation error and leaves every directory as it was: nothing
\* is created and nothing is written.
C8_InvalidLayoutTouchesNothing ==
    [][ (pc = "sync" /\ LayoutConflict) =>
            /\ dirs' = dirs
            /\ fsWrites' = {}
            /\ rets' = Append(rets, "remote_path and keep_structure cannot be used together")
      ]_vars

\* syncFiles refused a job with both settings while the source tree held files.
C8_Witness ==
    /\ LayoutConflict
    /\ srcFiles # {}
    /\ StepsRun = <<"initRepo", "syncFiles">>
    /\ rets[2] = "remote_path and keep_structure cannot be used together"
    /\ fsWrites = {}

\* Every initRepo call of the current succession that met no failing command
\* returned no error and left HEAD on the configured branch.
InitCallsLandOnBranch ==
    \A i \in 1..Len(initHist) :
        initHist[i].faults = {} =>
            /\ initHist[i].err = ""
            /\ initHist[i].head = BranchOrMain(job)

CommitCmds == SelectSeq(cmds, LAMBDA c : c[1] = "commitChanges")

\* C10: when git status told commitChanges that the working tree is clean,
\* commitChanges returned no error and issued no command but that status.
C10_CleanTreeIsNoOp ==
    statusOut = "clean" =>
        /\ Len(rets) = 3
        /\ rets[3] = ""
        /\ CommitCmds = << <<"commitChanges", "status">> >>

\* commitChanges met a clean tree in a job that has a remote to push to.
C10_Witness ==
    /\ statusOut = "clean"
    /\ job.RemoteURL # NoURL
    /\ JobDir.git
    /\ rets[3] = ""

(***************************************************************************)
(* Merge strategy properties                                               *)
(***************************************************************************)
\* commitChanges issued the git command c in this run.
Issued(c) == \E i \in 1..Len(CommitCmds) : CommitCmds[i][2] = c

\* The merge strategy the job configures, in lower case.
Strategy == ToLower(job.MergeStrategy)

\* commitChanges made a commit in this run, in a job with a remote URL.
CommittedWithRemote ==
    /\ job.RemoteURL # NoURL
    /\ Issued("commit")
    /\ rets[3] # "git commit failed"

\* C11: a forced push is issued only with strategy force, a rebase only with
\* strategy rebase, no run issues both, and after a commit in a job with a
\* remote URL the one strategy the job configures was entered: the rebase
\* for rebase, the forced push alone for force, the plain push alone otherwise.
C11_OneStrategyPerRun ==
    /\ Issued("push -f") => Strategy = "force"
    /\ Issued("rebase") => Strategy = "rebase"
    /\ ~(Issued("rebase") /\ Issued("push -f"))
    /\ CommittedWithRemote =>
          /\ Strategy = "rebase" => Issued("rebase")
          /\ Strategy = "force" => (Issued("push -f") /\ ~Issued("push"))
          /\ Strategy \notin {"rebase", "force"} =>
                (Issued("push") /\ ~Issued("rebase") /\ ~Issued("push -f"))

\* A run with strategy force committed and pushed with force.
C11_Witness ==
    /\ CommittedWithRemote
    /\ Strategy = "force"
    /\ Issued("push -f")
    /\ rets[3] = ""

\* C12: when the rebase of a run failed, the strategy is rebase, the commands
\* of commitChanges end with the rebase and its abort, commitChanges returned
\* the rebase error, and no push, plain or forced, was issued.
C12_FailedRebaseAbortsWithoutPush ==
    rebaseOut = "failed" =>
        /\ Strategy = "rebase"
        /\ Len(CommitCmds) >= 2
        /\ CommitCmds[Len(CommitCmds) - 1][2] = "rebase"
        /\ CommitCmds[Len(CommitCmds)][2] = "rebase --abort"
        /\ rets[3] = "git rebase failed"
        /\ ~Issued("push")
        /\ ~Issued("push -f")

\* The rebase of a run failed although the remote has the branch.
C12_Witness ==
    /\ rebaseOut = "failed"
    /\ job.Branch \in DOMAIN remote
    /\ pc = "defer"
    /\ rets[3] = "git rebase failed"

(***************************************************************************)
(* Webhook dispatch properties                                             *)
(***************************************************************************)
\* The top-level calls ExecuteWebhooks made so far.
TopCalls == SelectSeq(hTrace, LAMBDA e : e.ev = "call")

\* The top-level call during which entry i of hTrace happened.
TopOf(i) == Cardinality({ k \in 1..i : hTrace[k].ev = "call" })

\* The entries of hTrace that belong to top-level call t.
Segment(t) == { i \in 1..Len(hTrace) : TopOf(i) = t }

\* The requests sent during top-level call t, by webhook name, in order.
SendsOf(t) ==
    LET sends == SelectSeq([i \in 1..Len(hTrace) |-> [e |-> hTrace[i], t |-> TopOf(i)]],
                           LAMBDA x : x.t = t /\ x.e.ev = "send")
    IN  [i \in 1..Len(sends) |-> sends[i].e.name]

\* C13: ExecuteWebhooks calls the top-level webhooks in list order, and when
\* it has returned it has called every one of them, whatever errors they or
\* their references gave, and has returned no error.
C13_EveryTopLevelAttempted ==
    /\ Len(TopCalls) <= Len(hConfigs)
    /\ \A i \in 1..Len(TopCalls) :
          TopCalls[i].n = i /\ TopCalls[i].name = hConfigs[i].Name
    /\ hpc = "done" => (Len(TopCalls) = Len(hConfigs) /\ hRet = "nil")

\* The first top-level webhook failed and was logged, and a later one sent its
\* request with success.
C13_Witness ==
    /\ hpc = "done"
    /\ hRet = "nil"
    /\ \E i, k \in 1..Len(hTrace) :
          /\ i < k
          /\ hTrace[i].ev = "log" /\ hTrace[i].n = 1
          /\ hTrace[k].ev = "send" /\ hTrace[k].ok /\ TopOf(k) = 2

\* How often webhook name was executed (its body rendered, its first request
\* made) during top-level call t.
Executions(t, name) ==
    Cardinality({ i \in Segment(t) :
                    /\ hTrace[i].name = name
                    /\ \/ hTrace[i].ev = "template"
                       \/ hTrace[i].ev = "send" /\ hTrace[i].n = 1 })

\* A and B refer to each other, both would be sent under the status, and both
\* make at least one attempt.
MutualCycle ==
    /\ {"A", "B"} \subseteq DOMAIN registry
    /\ registry["A"].References = <<"B">>
    /\ registry["B"].References = <<"A">>
    /\ \A n \in {"A", "B"} : /\ registry[n].Trigger \in {"always", hStatus}
                              /\ registry[n].RetryCount > 0

\* Top-level call t has returned and every request of it had a 2xx response.
ReturnedAllOk(t) ==
    /\ hTop > t
    /\ \A i \in Segment(t) : hTrace[i].ev \in {"send", "template"} => hTrace[i].ok

\* C14: during one top-level call no webhook is executed more than once,
\* whatever the reference graph; and where A and B refer to each other and
\* requests succeed, the top-level call of A sends B's request once, then A's
\* request once, and nothing else.
C14_EachNodeAtMostOnce ==
    /\ \A t \in 1..Len(hConfigs), n \in HookNames : Executions(t, n) <= 1
    /\ MutualCycle =>
          \A t \in 1..Len(hConfigs) :
              (hConfigs[t].Name = "A" /\ ReturnedAllOk(t)) => SendsOf(t) = <<"B", "A">>

\* The top-level call of A in the cycle of A and B has returned: the lookup in
\* the executed map stopped the second visit of A, and B, then A were sent.
C14_Witness ==
    /\ MutualCycle
    /\ hpc = "done"
    /\ \E t \in 1..Len(hConfigs) :
          /\ hConfigs[t].Name = "A"
          /\ ReturnedAllOk(t)
          /\ SendsOf(t) = <<"B", "A">>
          /\ \E i \in Segment(t) : hTrace[i].ev = "skip" /\ hTrace[i].name = "A"

\* C15: every call of ExecuteWebhooks returns.
C15_ExecuteWebhooksTerminates == <>(hpc = "done")

\* ExecuteWebhooks has returned after the top-level call of a webhook that
\* names itself.
C15_Witness ==
    /\ hpc = "done"
    /\ "A" \in DOMAIN registry
    /\ registry["A"].References = <<"A">>
    /\ \E i \in 1..Len(hTrace) : hTrace[i].ev = "skip" /\ hTrace[i].name = "A"

\* C16: a request is sent only for a webhook whose trigger is "always" or
\* equals the status; a webhook is held back only when its trigger is neither;
\* and a webhook held back returns no error.
C16_TriggerGatesRequests ==
    /\ [](\A i \in 1..Len(hTrace) :
            /\ hTrace[i].ev = "send" =>
                  registry[hTrace[i].name].Trigger \in {"always", hStatus}
            /\ hTrace[i].ev = "gated" =>
                  registry[hTrace[i].name].Trigger \notin {"always", hStatus})
    /\ [][ (Len(hTrace') = Len(hTrace) + 1 /\ hTrace'[Len(hTrace')].ev = "gated") =>
               (hpc' = "return" /\ hErr' = "") ]_vars

\* Under status "failure" a webhook with trigger "success" was held back, one
\* with trigger "failure" and one with trigger "always" were sent.
C16_Witness ==
    /\ hpc = "done"
    /\ hStatus = "failure"
    /\ \E i, k, l \in 1..Len(hTrace) :
          /\ hTrace[i].ev = "gated" /\ registry[hTrace[i].name].Trigger = "success"
          /\ hTrace[k].ev = "send" /\ registry[hTrace[k].name].Trigger = "always"
          /\ hTrace[l].ev = "send" /\ registry[hTrace[l].name].Trigger = "failure"

\* The requests the execution of executeWebhook that just returned has sent.
SentByExecution ==
    IF Len(hTrace) > 0 /\ hTrace[Len(hTrace)].ev = "send"
       /\ hTrace[Len(hTrace)].name = TopFrame.w.Name
    THEN hTrace[Len(hTrace)].n ELSE 0

\* executeWebhook has just returned the error of its last attempt.
AllAttemptsFailed == hpc = "return" /\ hErr = "webhook execution failed"

\* No request follows a 2xx response within one execution.
StopsAtFirstSuccess ==
    \A i \in 1..(Len(hTrace) - 1) :
        (hTrace[i].ev = "send" /\ hTrace[i].ok) =>
            ~(hTrace[i + 1].ev = "send" /\ hTrace[i + 1].n > 1)

\* C17 as stated: executeWebhook sends at most 1 + RetryCount requests, stops
\* at the first 2xx response, and has sent exactly 1 + RetryCount requests
\* when every attempt failed.
C17_OnePlusRetryCountAttempts ==
    /\ \A i \in 1..Len(hTrace) :
          hTrace[i].ev = "send" => hTrace[i].n <= 1 + registry[hTrace[i].name].RetryCount
    /\ StopsAtFirstSuccess
    /\ AllAttemptsFailed => SentByExecution = 1 + TopFrame.w.RetryCount

\* C17 amended: executeWebhook sends at most RetryCount requests, stops at the
\* first 2xx response, and has sent exactly RetryCount requests (none for a
\* RetryCount that is not positive) when it returns the error.
C17_RetryCountAttempts ==
    /\ \A i \in 1..Len(hTrace) :
          hTrace[i].ev = "send" => hTrace[i].n <= registry[hTrace[i].name].RetryCount
    /\ StopsAtFirstSuccess
    /\ AllAttemptsFailed =>
          SentByExecution = IF TopFrame.w.RetryCount > 0 THEN TopFrame.w.RetryCount ELSE 0

\* A webhook registered without retry_count failed three times and gave up.
C17_Witness ==
    /\ AllAttemptsFailed
    /\ TopFrame.w.RetryCount = 3
    /\ SentByExecution = 3
    /\ \A i \in (Len(hTrace) - 2)..Len(hTrace) : ~hTrace[i].ok

\* The given names that are registered, in the order given.
RegisteredNames == SelectSeq(hNames, LAMBDA n : n \in DOMAIN registry)

\* C18: GetWebhooksByNames returns one config per given name that is
\* registered, in the order of the names, each the config registered under
\* the name and carrying it; names not registered leave no trace.
C18_ResolvesRegisteredNamesInOrder ==
    hpc \notin {"off", "resolve"} =>
        /\ Len(hConfigs) = Len(RegisteredNames)
        /\ \A i \in 1..Len(hConfigs) :
              /\ hConfigs[i] = registry[RegisteredNames[i]]
              /\ hConfigs[i].Name = RegisteredNames[i]

\* Of the names C, D, A the configs of C and A were returned: D was refused at
\* registration.
C18_Witness ==
    /\ hpc = "loop"
    /\ hNames = <<"C", "D", "A">>
    /\ Len(hConfigs) = 2
    /\ hConfigs[1].Name = "C"
    /\ hConfigs[2].Name = "A"

(***************************************************************************)
(* Destination layout properties                                           *)
(***************************************************************************)
\* Where the claim puts source file f (a path relative to the working
\* directory), relative to the job's repository directory.
ExpectedDest(f) ==
    IF job.KeepStructure THEN f
    ELSE IF job.RemotePath # <<>> THEN job.RemotePath \o <<Sep>> \o Base(f)
    ELSE Base(f)

\* The source files whose destination directory or copy failed in this run.
FailedFiles == { x[1] : x \in copyFails }

\* C19: after a successful syncFiles every file it wrote lies where the
\* layout of the job puts its source file: under the full relative path with
\* keep_structure, under remote_path and the base name with remote_path, under
\* the base name alone otherwise; and every source file whose copy did not
\* fail has its destination written.
C19_DestinationFollowsLayout ==
    SyncSucceeded =>
        /\ \A dst \in fsWrites \cap DOMAIN JobDir.wt :
              JobDir.wt[dst] \in srcFiles => dst = ExpectedDest(JobDir.wt[dst])
        /\ \A f \in srcFiles \ FailedFiles :
              ExpectedDest(f) \in fsWrites \cap DOMAIN JobDir.wt

\* With keep_structure the nested file was written under its full relative
\* path.
C19_Witness ==
    /\ SyncSucceeded
    /\ job.KeepStructure
    /\ <<"s", Sep, "d", Sep, "a", ".", "t">> \in fsWrites \cap DOMAIN JobDir.wt
    /\ JobDir.wt[<<"s", Sep, "d", Sep, "a", ".", "t">>] = <<"s", Sep, "d", Sep, "a", ".", "t">>

\* C20: when the destination directory or the copy of a matched file failed,
\* syncFiles returned no error and the destination of every other matched
\* file was written.
C20_CopyFailureDoesNotStopSync ==
    copyFails # {} =>
        /\ calls[2] = "syncFiles"
        /\ rets[2] = ""
        /\ \A f \in srcFiles \ FailedFiles :
              ExpectedDest(f) \in fsWrites \cap DOMAIN JobDir.wt

\* The directory of the first file walked could not be created; the files
\* walked after it were written.
C20_Witness ==
    /\ copyFails = { << <<"s", Sep, "a", ".", "t">>, "mkdir" >> }
    /\ job.KeepStructure
    /\ rets[2] = ""
    /\ <<"s", Sep, "b", ".", "m">> \in fsWrites \cap DOMAIN JobDir.wt
    /\ <<"s", Sep, "d", Sep, "a", ".", "t">> \in fsWrites \cap DOMAIN JobDir.wt

(***************************************************************************)
(* Directory walk properties                                               *)
(***************************************************************************)
\* The directory syncFiles starts its walk at.
WalkRoot == Join(WorkDir, Dir(normalizeSourcePath(ToSlash(job.SourcePath))))

\* syncFiles was called with a valid job and the root of its walk missing:
\* the walk itself fails.
WalkFailed ==
    /\ Len(calls) >= 2
    /\ calls[2] = "syncFiles"
    /\ validateJob(job) = ""
    /\ WalkRoot \notin ExistingDirs(srcFiles)

\* C21: when the directory walk itself fails because the source root does
\* not exist, syncFiles returns an error and the run does not go on to
\* commitChanges.
C21_WalkFailureAbortsSync ==
    WalkFailed =>
        /\ Len(rets) >= 2 => rets[2] # ""
        /\ \A i \in 1..Len(calls) : calls[i] # "commitChanges"

\* The source files the job's normalized source pattern matches.
PatternSources ==
    { f \in srcFiles :
        LET m == Match(normalizeSourcePath(ToSlash(job.SourcePath)), f)
        IN  ~m.err /\ m.matched }

\* C22: after a successful syncFiles in which no copy failed, every existing
\* file the job's normalized source pattern matches was found by the walk
\* and copied to its destination, whatever the source pattern.
C22_EveryMatchingFileCopied ==
    (SyncSucceeded /\ copyFails = {}) =>
        \A f \in PatternSources : ExpectedDest(f) \in fsWrites \cap DOMAIN JobDir.wt

(***************************************************************************)
(* Repository initialization properties                                    *)
(***************************************************************************)
\* Command c is among the commands of initRepo call r.
InitIssued(r, c) == \E i \in 1..Len(r.cmds) : r.cmds[i] = c

\* C23: every successful initRepo on a repository that existed before, with
\* or without a remote URL, left the working copy on the configured branch:
\* by "checkout -b" when the branch did not exist, by "checkout" when it did.
C23_ExistingRepoOnBranch ==
    \A i \in 1..Len(initHist) :
        (initHist[i].existed /\ initHist[i].err = "") =>
            /\ initHist[i].head = BranchOrMain(job)
            /\ IF BranchOrMain(job) \in initHist[i].branches
               THEN InitIssued(initHist[i], "checkout")
               ELSE InitIssued(initHist[i], "checkout -b")

\* A successful initRepo that created the repository for a job with a remote.
NewWithRemote(r) == ~r.existed /\ job.RemoteURL # NoURL /\ r.err = ""

\* C24 as stated: a successful initRepo that created a repository for a job
\* with a remote left the configured branch with at least one commit.
C24_NewRepoHasPlaceholderCommit ==
    \A i \in 1..Len(initHist) :
        NewWithRemote(initHist[i]) =>
            /\ initHist[i].head = BranchOrMain(job)
            /\ initHist[i].hasCommit

\* C24, amended: a successful initRepo that created a repository for a job
\* with a remote renamed the unborn default branch to the configured branch
\* and made no commit: HEAD names the configured branch, which has no commit
\* yet, and the commands were init, remote get-url, remote add and branch -M.
C24_NewRepoRenamedWithoutCommit ==
    \A i \in 1..Len(initHist) :
        NewWithRemote(initHist[i]) =>
            /\ initHist[i].head = BranchOrMain(job)
            /\ ~initHist[i].hasCommit
            /\ initHist[i].cmds = <<"init", "remote get-url", "remote add", "branch -M">>

\* A repository was created for a job with a remote and the branch "dev",
\* where git init starts on "master".
C24_Witness ==
    /\ Len(initHist) >= 1
    /\ NewWithRemote(initHist[1])
    /\ defaultBranch = "master"
    /\ job.Branch = "dev"
    /\ initHist[1].head = "dev"
    /\ ~initHist[1].hasCommit

\* C25: initRepo issues "remote add origin" only when "remote get-url origin"
\* failed, and an origin that existed before a call has the same URL after
\* it, whatever the job's URL and the user's credentials are.
C25_OriginCheckThenAdd ==
    \A i \in 1..Len(initHist) :
        /\ InitIssued(initHist[i], "remote add") =>
              /\ InitIssued(initHist[i], "remote get-url")
              /\ initHist[i].origin = NoURL \/ "remote get-url" \in initHist[i].faults
        /\ initHist[i].origin # NoURL => initHist[i].originAfter = initHist[i].origin

\* A successful initRepo of a job with a remote, by a user with credentials,
\* found origin set to another repository's URL and left it so, without
\* "remote add".
C25_Witness ==
    /\ Len(initHist) >= 1
    /\ initHist[1].err = ""
    /\ job.RemoteURL # NoURL
    /\ user.GitUsername # ""
    /\ initHist[1].origin = URL("https://", <<>>, "h/old")
    /\ initHist[1].originAfter = URL("https://", <<>>, "h/old")
    /\ InitIssued(initHist[1], "remote get-url")
    /\ ~InitIssued(initHist[1], "remote add")

(***************************************************************************)
(* Working-copy directory properties                                       *)
(***************************************************************************)
\* C26: initRepo, syncFiles and commitChanges of a job operate on the same
\* directory: in a run whose initRepo succeeded and whose syncFiles wrote
\* files, the directory syncFiles wrote to (and commitChanges works in) is
\* the repository initRepo prepared, and no other directory under
\* .git-syncer was created.
C26_StepsShareDirectory ==
    (SyncSucceeded /\ rets[1] = "" /\ fsWrites # {}) =>
        /\ DirKey(GetRepoPath(job)) = DirKey(InitRepoDir(job))
        /\ \A k \in DirKeys : dirs[k].present => dirs[k].git

\* C27: two jobs with distinct names never share a working-copy directory:
\* once initRepo ran for both jobs of the pair, the directories it used differ.
C27_DistinctNamesDistinctDirs ==
    (cJobs # <<>> /\ cInitDir[1] # <<>> /\ cInitDir[2] # <<>>) =>
        cInitDir[1] # cInitDir[2]

(***************************************************************************)
(* Commit identity properties                                              *)
(***************************************************************************)
\* C29: when jobs of different users run concurrently, every commit carries
\* the user name and email of the job that made it: no step of the other
\* job's run changed the identity between that job's git config and its
\* commit.
C29_CommitCarriesOwnIdentity ==
    \A c \in 1..Len(cLog) :
        /\ cLog[c].name = cJobs[cLog[c].job].User.Username
        /\ cLog[c].email = cJobs[cLog[c].job].User.Email

(***************************************************************************)
(* Fetch properties                                                        *)
(***************************************************************************)
\* The strategy the job configures was entered in this run: the rebase for
\* rebase, the forced push for force, the plain push otherwise.
StrategyEntered ==
    IF Strategy = "rebase" THEN Issued("rebase")
    ELSE IF Strategy = "force" THEN Issued("push -f")
    ELSE Issued("push")

\* C28 as stated: after a failed fetch commitChanges still went on to the
\* configured merge strategy and a push was attempted in that run.
C28_FailedFetchStillPushes ==
    fetchOut = "failed" =>
        /\ StrategyEntered
        /\ Issued("push") \/ Issued("push -f")

\* C28, amended: a failed fetch is not fatal: commitChanges returned no error
\* for it and went on to the configured merge strategy. With the strategies
\* normal and force a push was attempted in that run; with rebase a push was
\* attempted exactly when the rebase succeeded.
C28_FailedFetchEntersStrategy ==
    fetchOut = "failed" =>
        /\ rets[3] \in {"", "git rebase failed", "git push failed", "git force push failed"}
        /\ StrategyEntered
        /\ Strategy = "rebase" => (Issued("push") <=> rebaseOut = "ok")

\* The fetch failed, the rebase onto the ref of an earlier fetch succeeded
\* and the push went through.
C28_Witness ==
    /\ fetchOut = "failed"
    /\ Strategy = "rebase"
    /\ rebaseOut = "ok"
    /\ Issued("push")
    /\ rets[3] = ""

(***************************************************************************)
(* Dispatch-wide execution properties                                      *)
(***************************************************************************)
\* How often webhook name was executed during the whole call of
\* ExecuteWebhooks, over all its top-level webhooks.
InvocationExecutions(name) ==
    Cardinality({ i \in 1..Len(hTrace) :
                    /\ hTrace[i].name = name
                    /\ \/ hTrace[i].ev = "template"
                       \/ hTrace[i].ev = "send" /\ hTrace[i].n = 1 })

\* C30: within one invocation of ExecuteWebhooks every webhook name is
\* executed at most once, also when it is reachable from several top-level
\* webhooks or both as a top-level webhook and through a reference.
C30_OncePerInvocation ==
    \A n \in HookNames : InvocationExecutions(n) <= 1

(***************************************************************************)
(* Reference ordering properties                                           *)
(***************************************************************************)
\* The registered names among the references of webhook w.
RegisteredRefs(w) ==
    { w.References[i] : i \in { k \in 1..Len(w.References) :
                                    w.References[k] \in DOMAIN registry } }

\* The names of the webhooks whose call of executeWebhookWithReferences is
\* under way.
OnStack == { hStack[i].w.Name : i \in 1..Len(hStack) }

\* The requests sent so far in the current top-level call, by name.
SentNow == { hTrace[i].name : i \in { k \in Segment(hTop) : hTrace[k].ev = "send" } }

\* C31: when a webhook comes to its own request, the loop over its
\* references is through and every registered reference has been executed in
\* this top-level call; and when a referenced webhook has returned an error,
\* its caller returns an error at once, without a request of its own.
C31_ReferencesFirst ==
    /\ [](hpc = "send" =>
            /\ TopFrame.ref > Len(TopFrame.w.References)
            /\ RegisteredRefs(TopFrame.w) \subseteq hExecuted)
    /\ [][ (hpc = "return" /\ Len(hStack) > 1 /\ hErr # "") =>
              /\ hpc' = "return"
              /\ hErr' # ""
              /\ hStack' = Take(hStack, Len(hStack) - 1)
              /\ hTrace' = hTrace ]_vars
    /\ []((hpc = "return" /\ hErr = "failed to execute referenced webhook") =>
              TopFrame.w.Name \notin SentNow)

\* B, referenced by A, failed on its template: A returns the error to
\* ExecuteWebhooks and no request of A was sent.
C31_Witness ==
    /\ hpc = "return"
    /\ Len(hStack) = 1
    /\ TopFrame.w.Name = "A"
    /\ hErr = "failed to execute referenced webhook"
    /\ \E i \in Segment(hTop) : hTrace[i].ev = "template" /\ hTrace[i].name = "B"
    /\ "A" \notin SentNow

(***************************************************************************)
(* Retry delay properties                                                  *)
(***************************************************************************)
\* C32: executeWebhook sleeps only between consecutive attempts: when it
\* returns after a successful request it has slept once per failed request
\* before it, and when it returns because every attempt failed it has slept
\* one time less than it sent requests.
C32_SleepsOnlyBetweenAttempts ==
    /\ (hpc = "return" /\ hErr = "webhook execution failed" /\ hAttempt > 0) =>
          hSleeps = hAttempt - 1
    /\ (hpc = "return" /\ hErr = "" /\ hTrace # <<>>
        /\ hTrace[Len(hTrace)].ev = "send" /\ hTrace[Len(hTrace)].ok) =>
          hSleeps = hTrace[Len(hTrace)].n - 1

(***************************************************************************)
(* Unregistered reference properties                                       *)
(***************************************************************************)
\* The loop over the references is at a name that is not registered.
AtUnknownRef ==
    /\ hpc = "refs"
    /\ TopFrame.ref <= Len(TopFrame.w.References)
    /\ TopFrame.w.References[TopFrame.ref] \notin DOMAIN registry

\* A names X, which is not registered, and then B; A and B would both be
\* sent under the status and make at least one attempt.
UnknownThenKnown ==
    /\ {"A", "B"} \subseteq DOMAIN registry
    /\ registry["A"].References = <<"X", "B">>
    /\ \A n \in {"A", "B"} : /\ shouldExecute(registry[n], hStatus)
                              /\ registry[n].RetryCount > 0

\* C33: a reference to a name that is not registered is passed over without
\* error and without any request or trace of it, and the references after it
\* and the referencing webhook are still executed: where A names X and B and
\* requests succeed, the top-level call of A sends B, then A.
C33_UnknownReferenceSkipped ==
    /\ [](\A i \in 1..Len(hTrace) : hTrace[i].name \in DOMAIN registry)
    /\ [][ AtUnknownRef =>
              /\ hpc' = "refs"
              /\ hErr' = hErr
              /\ hTrace' = hTrace
              /\ hExecuted' = hExecuted
              /\ hStack' = [hStack EXCEPT ![Len(hStack)].ref = @ + 1] ]_vars
    /\ [](UnknownThenKnown =>
            \A t \in 1..Len(hConfigs) :
                (hConfigs[t].Name = "A" /\ ReturnedAllOk(t)) => SendsOf(t) = <<"B", "A">>)

\* The top-level call of A, which names X and B, has returned: B and A were
\* sent, nothing for X, and no error was logged.
C33_Witness ==
    /\ UnknownThenKnown
    /\ hpc = "done"
    /\ \E t \in 1..Len(hConfigs) :
          /\ hConfigs[t].Name = "A"
          /\ ReturnedAllOk(t)
          /\ SendsOf(t) = <<"B", "A">>
          /\ \A i \in Segment(t) : hTrace[i].ev # "log"

(***************************************************************************)
(* Registration properties                                                 *)
(***************************************************************************)
\* Config c is complete: name, URL, method and trigger are not empty, retry
\* count and retry delay are not 0.
CompleteConfig(c) ==
    /\ c.Name # ""
    /\ c.URL # <<>>
    /\ c.Method # ""
    /\ c.Trigger # ""
    /\ c.RetryCount # 0
    /\ c.RetryDelay # 0

\* The last call of RegisterWebhook returned an error.
Rejected == rErr \notin {"-", ""}

\* C34: every config in the registry is complete and stored under its name;
\* a call that returned nil stored its config with POST, always, 3 and 5 in
\* place of an unset method, trigger, retry count and retry delay and the
\* given values otherwise; a call is rejected exactly for an empty name or
\* URL, and a rejected call leaves the registry as it was.
C34_RegisteredConfigsComplete ==
    /\ [](\A n \in DOMAIN registry : CompleteConfig(registry[n]) /\ registry[n].Name = n)
    /\ [](rErr = "" =>
            /\ rIn.Name \in DOMAIN registry
            /\ registry[rIn.Name] =
                 [rIn EXCEPT !.Method = IF rIn.Method = "" THEN "POST" ELSE rIn.Method,
                             !.Trigger = IF rIn.Trigger = "" THEN "always" ELSE rIn.Trigger,
                             !.RetryCount = IF rIn.RetryCount = 0 THEN 3 ELSE rIn.RetryCount,
                             !.RetryDelay = IF rIn.RetryDelay = 0 THEN 5 ELSE rIn.RetryDelay])
    /\ [](Rejected <=> (rErr # "-" /\ (rIn.Name = "" \/ rIn.URL = <<>>)))
    /\ [][Rejected' => registry' = registry]_vars

\* A config without method, trigger, retry count and retry delay was stored
\* with the defaults, and a later call without a URL was rejected and left it
\* there.
C34_Witness ==
    /\ Rejected
    /\ rIn.Name = "A"
    /\ rIn.URL = <<>>
    /\ "A" \in DOMAIN registry
    /\ registry["A"].Method = "POST"
    /\ registry["A"].Trigger = "always"
    /\ registry["A"].RetryCount = 3
    /\ registry["A"].RetryDelay = 5

(***************************************************************************)
(* Unpushed commit properties                                              *)
(***************************************************************************)
\* commitChanges ran in this run and returned nil, in a job with a remote URL.
PublishSucceeded ==
    /\ Len(rets) >= 3
    /\ calls[3] = "commitChanges"
    /\ rets[3] = ""
    /\ job.RemoteURL # NoURL

\* The tip of the branch HEAD names is on the remote branch.
TipPushed ==
    /\ JobDir.head \in DOMAIN JobDir.trees
    /\ JobDir.head \in DOMAIN remote
    /\ remote[JobDir.head] = JobDir.trees[JobDir.head]

\* C35: commitChanges never returns success for a job with a remote while a
\* local commit is unpushed: a commit whose push failed in one run is pushed
\* by the next run in which the push can succeed, also when no source file
\* changed in between.
C35_NoSuccessWhileUnpushed ==
    (PublishSucceeded /\ JobDir.git /\ JobDir.head \in DOMAIN JobDir.trees) => TipPushed

(***************************************************************************)
(* Frame properties of syncFiles                                           *)
(***************************************************************************)
\* C36: a step of syncFiles never removes a file from a directory under
\* .git-syncer and changes the content of no file other than those it wrote,
\* so a file whose source was removed stays in the working copy.
C36_SyncNeverDeletes ==
    [][ pc = "sync" =>
          \A k \in DirKeys : \A p \in DOMAIN dirs[k].wt :
              /\ p \in DOMAIN dirs'[k].wt
              /\ dirs'[k].wt[p] # dirs[k].wt[p] =>
                    (k = DirKey(GetRepoPath(job)) /\ p \in fsWrites') ]_vars

\* In the second run syncFiles copied files again although s/b.m, copied by
\* the first run, is gone from the source: b.m is still in the working copy.
C36_Witness ==
    /\ runs = 1
    /\ SyncSucceeded
    /\ fsWrites # {}
    /\ ~job.KeepStructure /\ job.RemotePath = <<>>
    /\ <<"s", Sep, "b", ".", "m">> \notin srcFiles
    /\ <<"b", ".", "m">> \in DOMAIN JobDir.wt
    /\ JobDir.wt[<<"b", ".", "m">>] = <<"s", Sep, "b", ".", "m">>

\* C37: after a successful syncFiles in which no copy failed, every source
\* file has its own destination holding its content: no two source files
\* were written to one destination path, whatever the layout.
C37_DestinationsDistinct ==
    (SyncSucceeded /\ copyFails = {}) =>
        \A f \in srcFiles :
            /\ ExpectedDest(f) \in fsWrites \cap DOMAIN JobDir.wt
            /\ JobDir.wt[ExpectedDest(f)] = f

(***************************************************************************)
(* Trigger and reference properties                                        *)
(***************************************************************************)
\* A names B; A's trigger does not match the status, B's does; B makes at
\* least one attempt with a body that parses, and B's own references are
\* none or A.
GatedCaller ==
    /\ {"A", "B"} \subseteq DOMAIN registry
    /\ registry["A"].References = <<"B">>
    /\ ~shouldExecute(registry["A"], hStatus)
    /\ shouldExecute(registry["B"], hStatus)
    /\ registry["B"].RetryCount > 0
    /\ TemplateParses(registry["B"].Body)
    /\ registry["B"].References \in { <<>>, <<"A">> }

\* The names of the requests sent during top-level call t.
SentIn(t) == { hTrace[i].name : i \in { k \in Segment(t) : hTrace[k].ev = "send" } }

\* C38: the trigger of a webhook is evaluated only when the loop over its
\* references is through, so its references are executed whether or not its
\* own trigger matches: where A, whose trigger does not match, names B, whose
\* trigger matches, a finished top-level call of A has sent B and not A.
C38_ReferencesRunDespiteTrigger ==
    /\ hpc = "gate" =>
          /\ TopFrame.ref > Len(TopFrame.w.References)
          /\ RegisteredRefs(TopFrame.w) \subseteq hExecuted
    /\ GatedCaller =>
          \A t \in 1..Len(hConfigs) :
              (hConfigs[t].Name = "A" /\ hTop > t) =>
                  ("B" \in SentIn(t) /\ "A" \notin SentIn(t))

\* The top-level call of A has returned: A was held back by its trigger
\* after B's request was sent.
C38_Witness ==
    /\ GatedCaller
    /\ hpc = "done"
    /\ hConfigs # <<>>
    /\ hConfigs[1].Name = "A"
    /\ SentIn(1) = {"B"}
    /\ \E i \in Segment(1) : hTrace[i].ev = "gated" /\ hTrace[i].name = "A"

(***************************************************************************)
(* Retry count properties                                                  *)
(***************************************************************************)
\* C39: executeWebhook never returns its "failed after N attempts" error
\* without having sent a request for the webhook, whatever its RetryCount.
C39_ErrorOnlyAfterRequest ==
    (hpc = "return" /\ hErr = "webhook execution failed") =>
        /\ hAttempt >= 1
        /\ hTrace[Len(hTrace)].ev = "send"
        /\ hTrace[Len(hTrace)].name = TopFrame.w.Name

(***************************************************************************)
(* First publish properties                                                *)
(***************************************************************************)
\* A command failed for a reason other than the missing remote branch: a
\* step other than the rebase returned an error, or a copy failed.
Disturbed ==
    \/ \E i \in 1..Len(rets) : rets[i] \notin {"", "git rebase failed"}
    \/ \E i \in 1..Len(initHist) : initHist[i].err # ""
    \/ copyFails # {}

\* The job's branch is on the remote.
Published == BranchOrMain(job) \in DOMAIN remote

====
